---- MODULE Spec2Model ----
(***************************************************************************)
(* tcpsnitch: the per-connection event pipeline of tcp_events.c and the    *)
(* initialisation, reset and cleanup of init.c.                            *)
(*                                                                         *)
(* Host threads run the post-hooks tcp_ev_* on the descriptors of Fds.  A  *)
(* hook is cut into steps at the points where it takes or releases a       *)
(* mutex (the slot lock of the descriptor table, init_mutex), so that      *)
(* every interleaving the locks allow is explored.  The heap of connection *)
(* records is the sequence cons; a pointer to a record is its index in     *)
(* cons, NULL is 0.  The output tree is files: the events.json of the      *)
(* connection directory <base>/<k>/<id> is files[<< k, id >>], the         *)
(* sequence of strings my_fputs() appended to it.                          *)
(*                                                                         *)
(* Spec     two threads issue any wrapped calls on one descriptor.         *)
(* SpecHost a single-threaded host program runs a script of wrapped calls, *)
(*          fork() and exit() included, on the descriptors of Fds.         *)
(* SpecDegraded  SpecHost in an environment where init cannot get its      *)
(*          output directory.                                              *)
(***************************************************************************)
EXTENDS Integers, Sequences, FiniteSets, TLC

\* ---------------------------------------------------------------- bounds
MaxCalls == 3      \* wrapped calls the host program issues in one run
MaxTime  == 1      \* the last value of the clock (micro seconds)
MaxBytes == 1      \* the largest byte count of one data transfer
MaxOptE  == 2      \* the largest dump_every_events tried
MaxScript == 3     \* the longest script drawn from HostOps

\* ------------------------------------------------------------- constants
NULL == 0
Threads == {1, 2}

\* The 18 event variants, in the order of string_from_tcp_event_type.
TcpEventTypes ==
    << "socket", "bind", "connect", "shutdown", "listen", "setsockopt",
       "send", "recv", "sendto", "recvfrom", "sendmsg", "recvmsg",
       "write", "read", "close", "writev", "readv", "tcp_info" >>

\* The hooks that add their byte count to con->bytes_sent.
SendFamily == {"send", "sendto", "sendmsg", "write", "writev"}
\* The hooks that add their byte count to con->bytes_received.
RecvFamily == {"recv", "recvfrom", "recvmsg", "read", "readv"}
\* The hooks whose byte count is the sum of the lengths of an iovec array
\* (fill_iovec, for the msghdr hooks through fill_msghdr).
IovecHooks == {"sendmsg", "recvmsg", "writev", "readv"}
\* The hooks built from TCP_EV_PRELUDE / TCP_EV_POSTLUDE that the host
\* program reaches through a wrapped call (tcp_info is reached only from
\* TCP_EV_POSTLUDE).
PreludeHooks ==
    {"bind", "connect", "shutdown", "listen", "setsockopt"}
        \cup SendFamily \cup RecvFamily

\* The wrapped calls the host program of the model issues: one hook of each
\* shape (no byte count, a nominal byte count sent, one received).
HostHooks == {"connect", "send", "recv"}

\* The descriptors of the model (the fd argument of the hooks).
Fds == {3, 5}

\* The descriptor the threads of Spec work on.
fd == 5

\* The error codes of the model: EBADF, EOPNOTSUPP and EADDRINUSE.
EBADF == 9
EOPNOTSUPP == 95
EADDRINUSE == 98

\* The address family of the address force_bind binds to.
AF_INET == 2

\* The ports force_bind tries, MAX_PORT (60999) scaled down to two ports.
MIN_PORT == 32768
MAX_PORT == 32769

\* An environment variable that is not set (get_long_opt_or_defaultval then
\* takes its default).
Unset == -1

\* The state of TCPSNITCH_OPT_D and of the directory it names.
EnvD == {"ok", "unset", "unreadable", "readonly"}

\* sizeof(struct sockaddr_storage), scaled down: an address is a sequence of
\* at most this many bytes.
SizeofStorage == 3

\* socklen_t, the type of the sum and of the result of fill_iovec, is an
\* unsigned integer of 32 bits: its values are taken modulo 2^32, here scaled
\* down to 2^4.
SOCKLEN_MOD == 16

\* The zeroed sockaddr_storage of an event or record (my_calloc).
NoAddr == [k \in 1..SizeofStorage |-> 0]

\* fill_addr: memcpy(&a->addr_sto, addr, len) into the zeroed storage.
fill_addr(addr, len) ==
    [k \in 1..SizeofStorage |-> IF k <= len THEN addr[k] ELSE 0]

\* The connection directory of a record made when there is no output
\* directory (con->directory == NULL).
NoDir == << >>

VARIABLES
    now,               \* the clock read by fill_timeval / get_time_micros
    env,               \* the environment: TCPSNITCH_OPT_B, _U, _E, _D
    dirs,              \* dirs[k+1]: the process that made <base>/<k>
    pid,               \* the process whose memory the state is
    initialized,       \* init.c: static bool initialized
    init_mutex,        \* the thread holding init_mutex, or NULL
    atexit_n,          \* how many times cleanup was given to atexit()
    conf_opt_b,        \* dump_every_bytes
    conf_opt_u,        \* dump_every_micros
    conf_opt_e,        \* dump_every_events
    conf_opt_d,        \* the per-process output directory <base>/<k>: k,
                       \* or Unset for NULL
    connections_count, \* the process-wide connection id counter
    cons,              \* the heap of TcpConnection records
    files,             \* files[p]: what was written to p/events.json
    log,               \* log[c]: every event push_event appended to cons[c]
    slot,              \* slot[f]: the descriptor table's element for f
    lock,              \* lock[f]: the thread holding the mutex of slot f
    pc,                \* pc[t]: where thread t is in its post-hook
    hk,                \* hk[t]: the arguments and locals of t's post-hook
    calls,             \* wrapped calls issued so far
    script,            \* the calls of the single-threaded host program
    fault,             \* the operation of the library that fails, if any
    proc,              \* proc[p]: process p inside create_logs_dir, when
                       \* several processes start on one base directory
    pcap               \* pcap[h]: the capture session of the handle h

vars == << now, env, dirs, pid, initialized, init_mutex, atexit_n,
           conf_opt_b, conf_opt_u, conf_opt_e, conf_opt_d,
           connections_count, cons, files, log, slot, lock, pc, hk, calls,
           script, fault, proc, pcap >>

\* The configuration snapshot taken by init_tcpsnitch.
conf == << conf_opt_b, conf_opt_u, conf_opt_e, conf_opt_d >>

\* What no post-hook writes: the clock, the environment, the state of
\* init.c, the host program's script and the failure to come.
frame == << now, env, dirs, pid, initialized, init_mutex, atexit_n,
            conf_opt_b, conf_opt_u, conf_opt_e, conf_opt_d, script, fault,
            proc >>

\* The failure of a run: the operation that fails (kind), the wrapped call
\* of the host program during which it fails (call), a detail of the
\* failure (at: the place in the list of the event that alloc_tcp_ev_json
\* cannot serialize; for fclose 1 when the buffered output is lost and 2
\* when it was written), what an access to freed memory or through a null
\* pointer does in this build (ub: the process is killed, or it goes on,
\* freed memory being read as it was and the store through NULL dropped),
\* and what locking a slot mutex does to the thread that holds it (relock:
\* it blocks for ever, or the lock call returns an error and the thread
\* proceeds, as with an error-checking mutex).  No operation fails:
NoFault == [ kind |-> "none", call |-> 0, at |-> 0, ub |-> "segv",
             relock |-> "blocks" ]

\* The operation kind fails during the wrapped call at hand.
Fails(kind) == fault.kind = kind /\ fault.call = calls

\* ------------------------------------------------------- pure functions

\* The switch of alloc_event: a socket event succeeds unless the descriptor
\* is 0, a close event when close returned 0, any other unless -1 was
\* returned.
success(type, return_value) ==
    IF type = "socket" THEN return_value # 0
    ELSE IF type = "close" THEN return_value = 0
    ELSE return_value # -1

\* alloc_error_str: the string of the error code.
alloc_error_str(err) == << "strerror", err >>

\* alloc_event with the sign of the clock value lost: timestamps run
\* backwards.
alloc_event_backwards(type, return_value, err, id, ts) ==
    [ id           |-> id,
      type         |-> type,
      timestamp    |-> 0 - ts,
      return_value |-> return_value,
      success      |-> success(type, return_value),
      error_str    |-> IF success(type, return_value)
                         THEN NULL ELSE alloc_error_str(err),
      bytes        |-> 0,
      detected     |-> FALSE,
      addr         |-> NoAddr,
      force_bind   |-> FALSE ]

\* alloc_event that records every call as a success, without error string.
alloc_event_noerr(type, return_value, err, id, ts) ==
    [ id           |-> id,
      type         |-> type,
      timestamp    |-> ts,
      return_value |-> return_value,
      success      |-> TRUE,
      error_str    |-> NULL,
      bytes        |-> 0,
      detected     |-> FALSE,
      addr         |-> NoAddr,
      force_bind   |-> FALSE ]

\* alloc_event: the event header; the timestamp ts is the clock read by
\* fill_timeval inside alloc_event, error_str the string of err when the
\* call did not succeed.  my_calloc zeroes the rest.
alloc_event(type, return_value, err, id, ts) ==
    [ id           |-> id,
      type         |-> type,
      timestamp    |-> ts,
      return_value |-> return_value,
      success      |-> success(type, return_value),
      error_str    |-> IF success(type, return_value)
                         THEN NULL ELSE alloc_error_str(err),
      bytes        |-> 0,
      detected     |-> FALSE,
      addr         |-> NoAddr,
      force_bind   |-> FALSE ]

\* create_numbered_dir_in_path(conf_opt_d, id): the connection directory
\* <conf_opt_d>/<id>, NULL when there is no output directory.
create_numbered_dir_in_path(d, id) ==
    IF d = Unset THEN NoDir ELSE << d, id >>

\* alloc_connection: my_calloc zeroes the record; id is the counter's value.
alloc_connection(id, directory) ==
    [ id                     |-> id,
      directory              |-> directory,
      events                 |-> << >>,     \* the list head .. tail
      events_count           |-> 0,
      last_json_dump_evcount |-> 0,
      bytes_sent             |-> 0,
      bytes_received         |-> 0,
      last_info_dump_bytes   |-> 0,
      last_info_dump_micros  |-> 0,
      bound                  |-> FALSE,
      bound_addr             |-> NoAddr,
      force_bind             |-> FALSE,
      capture_switch         |-> NULL,      \* the capture handle
      dangling               |-> 0,         \* nodes from head on that were
                                            \* freed while head points at them
      freed                  |-> FALSE ]

\* push_event with a lost increment of events_count.
push_event_noinc(con, ev) ==
    [con EXCEPT !.events = Append(@, ev)]

\* push_event: link the node after tail, count it; nothing when my_malloc
\* gives no node.
push_event(con, ev) ==
    IF Fails("push_event") THEN con
    ELSE [con EXCEPT !.events = Append(@, ev),
                     !.events_count = @ + 1]

\* should_dump_tcp_info with the two gates joined by "or".
should_dump_tcp_info_or(con, cur_time) ==
    \/ (conf_opt_u > 0 /\ cur_time - con.last_info_dump_micros >= conf_opt_u)
    \/ (conf_opt_b > 0 /\ (con.bytes_sent + con.bytes_received)
                            - con.last_info_dump_bytes >= conf_opt_b)
    \/ (conf_opt_u <= 0 /\ conf_opt_b <= 0)

\* should_dump_tcp_info that reads an option of 0 as "never dump".
should_dump_tcp_info_zero_off(con, cur_time) ==
    /\ conf_opt_u > 0 \/ conf_opt_b > 0
    /\ (conf_opt_u > 0 => ~(cur_time - con.last_info_dump_micros < conf_opt_u))
    /\ (conf_opt_b > 0 => ~((con.bytes_sent + con.bytes_received)
                              - con.last_info_dump_bytes < conf_opt_b))

\* should_dump_tcp_info: both lower bounds, each skipped when its option is
\* not positive.
should_dump_tcp_info(con, cur_time) ==
    /\ (conf_opt_u > 0 => ~(cur_time - con.last_info_dump_micros < conf_opt_u))
    /\ (conf_opt_b > 0 => ~((con.bytes_sent + con.bytes_received)
                              - con.last_info_dump_bytes < conf_opt_b))

\* should_dump_json
should_dump_json(con) ==
    con.events_count - con.last_json_dump_evcount >= conf_opt_e

\* The loop of tcp_dump_json without the test for the last event of a final
\* flush: a comma after every event.
RECURSIVE DumpEvents_comma(_, _, _)
DumpEvents_comma(evs, final, events_count) ==
    IF evs = << >> THEN << >>
    ELSE LET ev == Head(evs) IN
         (IF ev.id = 0 THEN << [s |-> "[\n", ev |-> -1] >> ELSE << >>)
         \o << [s |-> "json", ev |-> ev.id] >>
         \o << [s |-> ",\n", ev |-> -1] >>
         \o DumpEvents_comma(Tail(evs), final, events_count)

\* The strings the loop of tcp_dump_json writes for the list evs.
RECURSIVE DumpEvents(_, _, _)
DumpEvents(evs, final, events_count) ==
    IF evs = << >> THEN << >>
    ELSE LET ev == Head(evs) IN
         (IF ev.id = 0 THEN << [s |-> "[\n", ev |-> -1] >> ELSE << >>)
         \o << [s |-> "json", ev |-> ev.id] >>
         \o (IF final /\ ev.id + 1 = events_count
                THEN << [s |-> "\n", ev |-> -1] >>
                ELSE << [s |-> ",\n", ev |-> -1] >>)
         \o DumpEvents(Tail(evs), final, events_count)

\* tcp_dump_json that keeps the written events in the list.
tcp_dump_json_keep(con, file, final) ==
    IF con.directory = NoDir
      THEN [con |-> con, file |-> file, segv |-> FALSE]
    ELSE [ con  |-> [con EXCEPT !.last_json_dump_evcount = con.events_count],
           file |-> file \o DumpEvents(con.events, final, con.events_count)
                         \o (IF final THEN << [s |-> "]", ev |-> -1] >>
                                      ELSE << >>),
           segv |-> FALSE ]

\* tcp_dump_json without the test of con->directory.
tcp_dump_json_nodir(con, file, final) ==
    [ con  |-> [con EXCEPT !.events = << >>,
                           !.last_json_dump_evcount = con.events_count],
      file |-> file \o DumpEvents(con.events, final, con.events_count)
                    \o (IF final THEN << [s |-> "]", ev |-> -1] >>
                                 ELSE << >>),
      segv |-> FALSE ]

\* tcp_dump_json: append every event of the list to the file, free the list;
\* nothing is done for a record without a directory, nor when the path
\* cannot be allocated or the file cannot be opened.  The loop writes and
\* frees the events one by one and leaves by "goto error_out" at the first
\* event k that alloc_tcp_ev_json cannot serialize: head, tail and the
\* bookmark are then not updated, so head points at the k - 1 nodes just
\* freed.  A later traversal from such a head reads freed memory (segv tells
\* that it killed the process).  When fclose fails the list is already
\* freed and the bookmark advanced.
tcp_dump_json(con, file, final) ==
    IF con.directory = NoDir \/ Fails("json_path") \/ Fails("fopen")
      THEN [con |-> con, file |-> file, segv |-> FALSE]
    ELSE IF con.dangling > 0 /\ fault.ub = "segv"
      THEN [con |-> con, file |-> file, segv |-> TRUE]
    ELSE LET n   == Len(con.events)
             k   == IF Fails("json") /\ fault.at <= n THEN fault.at ELSE n + 1
             out == DumpEvents(SubSeq(con.events, 1, k - 1), final,
                               con.events_count)
         IN IF k <= n
              THEN [ con  |-> [con EXCEPT !.dangling = k - 1],
                     file |-> file \o out,
                     segv |-> FALSE ]
              ELSE [ con  |-> [con EXCEPT
                                 !.events = << >>,
                                 !.dangling = 0,
                                 !.last_json_dump_evcount = con.events_count],
                     file |-> IF Fails("fclose") /\ fault.at = 1
                                THEN file
                                ELSE file \o out
                                       \o (IF final
                                             THEN << [s |-> "]", ev |-> -1] >>
                                             ELSE << >>),
                     segv |-> FALSE ]

\* The content of p/events.json; a file that was never opened is empty.
FileAt(p) == IF p \in DOMAIN files THEN files[p] ELSE << >>

\* fopen(path, "a") ... fclose: the file of the directory p after a flush
\* that left the content f.
WriteFile(p, f) ==
    IF f = FileAt(p) THEN files ELSE (p :> f) @@ files

\* get_long_opt_or_defaultval: the variable's value, the default when it is
\* not set.
get_long_opt_or_defaultval(val, def_val) ==
    IF val = Unset THEN def_val ELSE val

\* ------------------------------------------------------------ the state

NoEvent == alloc_event("none", 0, 0, 0, 0)

\* The arguments and locals of a post-hook: the hook's type, its fd, the byte
\* count, return value and errno of the wrapped call, the iov_len of the
\* elements of its iovec array, the address given to bind, the
\* detected argument of tcp_ev_close, the event and record at hand, whether
\* tcp_ev_close was called by tcp_ev_socket, at exit the loop variable
\* of tcp_close_unclosed_connections (Unset outside the loop) and the number
\* of atexit handlers still to run, and, when the hook runs inside the bind()
\* of force_bind, the locals of force_bind: port (Unset outside force_bind),
\* rc and the errno bind() left.
NoHook == [ type |-> "none", fd |-> fd, bytes |-> 0, return_value |-> 0,
            err |-> 0, iov |-> << >>, addr |-> NoAddr, detected |-> FALSE,
            ev |-> NoEvent, con |-> NULL, from_socket |-> FALSE, i |-> Unset,
            handlers |-> 0, port |-> Unset, rc |-> 0, errno |-> 0 ]

\* The frame of force_bind under the hook h of its bind().
Caller(h) ==
    [NoHook EXCEPT !.fd = h.fd, !.port = h.port, !.rc = h.rc,
                   !.errno = h.errno]

\* Where a hook built from TCP_EV_PRELUDE / TCP_EV_POSTLUDE returns to: the
\* loop of force_bind, or the host program.
HookReturn(h) ==
    [ pc |-> IF h.port # Unset THEN "force_bind_rc" ELSE "idle",
      hk |-> IF h.port # Unset THEN Caller(h) ELSE NoHook ]

\* A call of the host program's script.
Call(op, f, bytes, return_value, addr, detected) ==
    [ op |-> op, fd |-> f, bytes |-> bytes, return_value |-> return_value,
      addr |-> addr, detected |-> detected, iov |-> << >> ]

\* A call of the script that takes an iovec array (writev, readv) or a
\* msghdr holding one (sendmsg, recvmsg); iov are the iov_len of its elements.
CallV(op, f, iov, return_value) ==
    [ op |-> op, fd |-> f, bytes |-> 0, return_value |-> return_value,
      addr |-> NoAddr, detected |-> FALSE, iov |-> iov ]

\* The state of a process at its first instruction: the globals of init.c
\* and tcp_events.c are zero, the descriptor table is empty.
Boot ==
    /\ now = 0
    /\ dirs = << >>
    /\ pid = 0
    /\ initialized = FALSE
    /\ init_mutex = NULL
    /\ atexit_n = 0
    /\ conf_opt_b = 0
    /\ conf_opt_u = 0
    /\ conf_opt_e = 0
    /\ conf_opt_d = Unset
    /\ connections_count = 0
    /\ cons = << >>
    /\ files = << >>
    /\ log = << >>
    /\ slot = [f \in Fds |-> NULL]
    /\ lock = [f \in Fds |-> NULL]
    /\ pc = [t \in Threads |-> "idle"]
    /\ hk = [t \in Threads |-> NoHook]
    /\ calls = 0
    /\ pcap = << >>

\* No process is followed through create_logs_dir step by step.
NoProcs == << >>

\* The environments of Spec: small options, so that both gates of the
\* tcp_info event and the flush threshold open and close within MaxCalls.
Init ==
    /\ Boot
    /\ env \in [ b : {0, 2}, u : {0, 1}, e : 1..MaxOptE, d : {"ok"} ]
    /\ script = << >>
    /\ fault = NoFault
    /\ proc = NoProcs

\* ------------------------------------------------- the descriptor table

\* ra_is_present: a snapshot of the slot.
ra_is_present(f) == slot[f] # NULL

\* ra_get_size: an upper bound of the descriptors the table has seen.
ra_get_size == 6

\* mutex_lock of the mutex of slot f returns in thread t: the mutex is free,
\* or t holds it and locking it again does not block.
mutex_lock(t, f) ==
    IF lock[f] = NULL THEN TRUE
    ELSE lock[f] = t /\ fault.relock = "proceeds"

\* ra_get_and_lock_elem: take the slot's mutex; an empty slot is unlocked
\* again and NULL is returned.
ra_get_and_lock_elem(t, f) ==
    /\ mutex_lock(t, f)
    /\ lock' = [lock EXCEPT ![f] = IF slot[f] = NULL THEN NULL ELSE t]

\* ra_unlock_elem
ra_unlock_elem(t, f) == lock' = [lock EXCEPT ![f] = NULL]

\* ra_remove_elem: under the slot's mutex, take the record out of the slot.
ra_remove_elem(t, f) ==
    /\ mutex_lock(t, f)
    /\ slot' = [slot EXCEPT ![f] = NULL]
    /\ lock' = [lock EXCEPT ![f] = NULL]

\* ra_put_elem: under the slot's mutex, fill the slot if it is empty.
ra_put_elem(t, f, c) ==
    /\ mutex_lock(t, f)
    /\ slot' = [slot EXCEPT ![f] = IF slot[f] = NULL THEN c ELSE slot[f]]
    /\ lock' = [lock EXCEPT ![f] = NULL]

\* ra_free and ra_reset: every slot is emptied and its mutex made anew.
ra_reset == [ slot |-> [f \in Fds |-> NULL], lock |-> [f \in Fds |-> NULL] ]

\* ------------------------------------------------------------- init.c

\* create_logs_dir: the first <base>/<k> that does not exist is made;
\* NULL (Unset) when mkdir fails.
create_logs_dir(d) ==
    IF d = "ok" THEN [ path |-> Len(dirs), dirs |-> Append(dirs, pid) ]
                ELSE [ path |-> Unset, dirs |-> dirs ]

\* init_tcpsnitch up to "if (initialized) goto exit" without init_mutex.
InitEnter_nomutex(t) ==
    /\ pc[t] = "init"
    /\ pc' = [pc EXCEPT ![t] = IF initialized THEN "socket" ELSE "init_body"]
    /\ UNCHANGED << now, env, dirs, pid, initialized, init_mutex, atexit_n,
                    conf_opt_b, conf_opt_u, conf_opt_e, conf_opt_d, script, fault, proc, pcap,
                    connections_count, cons, files, log, slot, lock, hk,
                    calls >>

\* init_tcpsnitch: mutex_lock(&init_mutex); when the library is initialized
\* the mutex is released at once.
InitEnter(t) ==
    /\ pc[t] = "init"
    /\ init_mutex = NULL
    /\ init_mutex' = IF initialized THEN NULL ELSE t
    /\ pc' = [pc EXCEPT ![t] = IF initialized THEN "socket" ELSE "init_body"]
    /\ UNCHANGED << now, env, dirs, pid, initialized, atexit_n,
                    conf_opt_b, conf_opt_u, conf_opt_e, conf_opt_d, script, fault, proc, pcap,
                    connections_count, cons, files, log, slot, lock, hk,
                    calls >>

\* init_tcpsnitch that leaves initialized false at its exit.
InitBody_unmarked(t) ==
    /\ pc[t] = "init_body"
    /\ atexit_n' = atexit_n + 1
    /\ conf_opt_b' = get_long_opt_or_defaultval(env.b, 4096)
    /\ conf_opt_e' = get_long_opt_or_defaultval(env.e, 1000)
    /\ conf_opt_u' = get_long_opt_or_defaultval(env.u, 0)
    /\ LET r == IF env.d \in {"unset", "unreadable"}
                  THEN [ path |-> Unset, dirs |-> dirs ]   \* get_conf_opt_d
                  ELSE create_logs_dir(env.d)
       IN /\ conf_opt_d' = r.path
          /\ dirs' = r.dirs
    /\ initialized' = FALSE
    /\ init_mutex' = NULL
    /\ pc' = [pc EXCEPT ![t] = "socket"]
    /\ UNCHANGED << now, env, pid, script, fault, proc, pcap, connections_count, cons,
                    files,
                    log, slot, lock, hk, calls >>

\* init_tcpsnitch, the initialization steps: atexit(cleanup), the options,
\* the output directory; then initialized = true and the mutex is released.
InitBody(t) ==
    /\ pc[t] = "init_body"
    /\ atexit_n' = atexit_n + 1
    /\ conf_opt_b' = get_long_opt_or_defaultval(env.b, 4096)
    /\ conf_opt_e' = get_long_opt_or_defaultval(env.e, 1000)
    /\ conf_opt_u' = get_long_opt_or_defaultval(env.u, 0)
    /\ LET r == IF env.d \in {"unset", "unreadable"}
                  THEN [ path |-> Unset, dirs |-> dirs ]   \* get_conf_opt_d
                  ELSE create_logs_dir(env.d)
       IN /\ conf_opt_d' = r.path
          /\ dirs' = r.dirs
    /\ initialized' = TRUE
    /\ init_mutex' = NULL
    /\ pc' = [pc EXCEPT ![t] = "socket"]
    /\ UNCHANGED << now, env, pid, script, fault, proc, pcap, connections_count, cons,
                    files,
                    log, slot, lock, hk, calls >>

\* tcp_reset that keeps the connection counter.
tcp_reset_keep == [ connections_count |-> connections_count ]

\* tcp_reset: connections_count = 0 (with ra_reset and a new mutex).
tcp_reset == [ connections_count |-> 0 ]

\* reset_tcpsnitch that returns at once.
Reset_skip(t) ==
    /\ pc[t] = "reset"
    /\ UNCHANGED << initialized, init_mutex, connections_count, slot,
                    lock, cons >>
    /\ pc' = [pc EXCEPT ![t] = "idle"]
    /\ hk' = [hk EXCEPT ![t] = NoHook]
    /\ UNCHANGED << now, env, dirs, pid, atexit_n, conf_opt_b, conf_opt_u,
                    conf_opt_e, conf_opt_d, script, fault, proc, pcap, files, log, calls >>

\* reset_tcpsnitch in the child of a fork: nothing when the library is not
\* initialized; else initialized = false, init_mutex made anew, tcp_free()
\* and tcp_reset(): the table is emptied and its records released, the
\* connection counter is 0 again.  free(conf_opt_d) leaves the pointer.
\* Releasing a record whose head points at freed nodes reads freed memory,
\* which may kill the process (pc "segv").
Reset(t) ==
    /\ pc[t] = "reset"
    /\ IF ~initialized
         THEN UNCHANGED << initialized, init_mutex, connections_count, slot,
                           lock, cons >>
         ELSE /\ initialized' = FALSE
              /\ init_mutex' = NULL
              /\ slot' = ra_reset.slot
              /\ lock' = ra_reset.lock
              /\ cons' = [c \in DOMAIN cons |->
                            [cons[c] EXCEPT !.events = << >>,
                                            !.freed = TRUE]]
              /\ connections_count' = tcp_reset.connections_count
    /\ pc' = [pc EXCEPT ![t] =
                IF /\ initialized
                   /\ fault.ub = "segv"
                   /\ \E f \in Fds : slot[f] # NULL
                                        /\ cons[slot[f]].dangling > 0
                  THEN "segv" ELSE "idle"]
    /\ hk' = [hk EXCEPT ![t] = NoHook]
    /\ UNCHANGED << now, env, dirs, pid, atexit_n, conf_opt_b, conf_opt_u,
                    conf_opt_e, conf_opt_d, script, fault, proc, pcap, files, log, calls >>

\* ------------------------------------------------------------ the hooks

\* The statements of a hook between TCP_EV_PRELUDE and TCP_EV_POSTLUDE.
\* Swapped counters: the receive hooks add to bytes_sent.
hook_body_swapped(con, ev, cur_time) ==
    IF ev.type \in SendFamily \cup RecvFamily
        THEN [con EXCEPT !.bytes_sent = @ + ev.bytes]
    ELSE IF ev.type = "tcp_info"
        THEN [con EXCEPT
                !.last_info_dump_bytes = con.bytes_sent + con.bytes_received,
                !.last_info_dump_micros = cur_time]
    ELSE con

\* tcp_ev_tcp_info without the byte bookmark.
hook_body_nobookmark(con, ev, cur_time) ==
    IF ev.type \in SendFamily
        THEN [con EXCEPT !.bytes_sent = @ + ev.bytes]
    ELSE IF ev.type \in RecvFamily
        THEN [con EXCEPT !.bytes_received = @ + ev.bytes]
    ELSE IF ev.type = "tcp_info"
        THEN [con EXCEPT !.last_info_dump_micros = cur_time]
    ELSE con

\* tcp_ev_bind without the test of return_value.
hook_body_bindalways(con, ev, cur_time) ==
    IF ev.type \in SendFamily
        THEN [con EXCEPT !.bytes_sent = @ + ev.bytes]
    ELSE IF ev.type \in RecvFamily
        THEN [con EXCEPT !.bytes_received = @ + ev.bytes]
    ELSE IF ev.type = "tcp_info"
        THEN [con EXCEPT
                !.last_info_dump_bytes = con.bytes_sent + con.bytes_received,
                !.last_info_dump_micros = cur_time]
    ELSE IF ev.type = "bind"
        THEN [con EXCEPT !.bound = TRUE, !.bound_addr = ev.addr]
    ELSE con

\* The statements of a hook between TCP_EV_PRELUDE and TCP_EV_POSTLUDE that
\* change the connection record; ev is the hook's event as filled.
hook_body(con, ev, cur_time) ==
    IF ev.type \in SendFamily
        THEN [con EXCEPT !.bytes_sent = @ + ev.bytes]
    ELSE IF ev.type \in RecvFamily
        THEN [con EXCEPT !.bytes_received = @ + ev.bytes]
    ELSE IF ev.type = "tcp_info"
        THEN [con EXCEPT
                !.last_info_dump_bytes = con.bytes_sent + con.bytes_received,
                !.last_info_dump_micros = cur_time]
    ELSE IF ev.type = "bind" /\ ev.return_value = 0
        THEN [con EXCEPT !.bound = TRUE, !.bound_addr = ev.addr]
    ELSE con

\* The loop of fill_iovec from element i on: bytes += iov2[i].iov_len, in
\* socklen_t.
RECURSIVE IovecLoop(_, _, _, _)
IovecLoop(iov2, i, iovec_count, bytes) ==
    IF i > iovec_count THEN bytes
    ELSE IovecLoop(iov2, i + 1, iovec_count, (bytes + iov2[i]) % SOCKLEN_MOD)

\* fill_iovec: 0 for an empty array, (socklen_t)-1 when the array of sizes
\* cannot be allocated, else the sum the loop computes.
fill_iovec(iov2, iovec_count) ==
    IF iovec_count <= 0 THEN 0
    ELSE IF Fails("iovec_sizes") THEN (0 - 1) % SOCKLEN_MOD
    ELSE IovecLoop(iov2, 1, iovec_count, 0)

\* A hook that leaves ev->bytes zero.
fill_event_nobytes(ev, con, h) ==
    [ev EXCEPT !.addr = IF ev.type = "bind" THEN fill_addr(h.addr, Len(h.addr))
                                           ELSE NoAddr,
               !.force_bind = IF ev.type = "bind" THEN con.force_bind
                                                  ELSE FALSE]

\* The statements of a hook that fill its event: the byte count (the bytes
\* argument, or the result of fill_iovec / fill_msghdr), and for tcp_ev_bind
\* the address (fill_addr) and con->force_bind.
fill_event(ev, con, h) ==
    [ev EXCEPT !.bytes = IF ev.type \in IovecHooks
                           THEN fill_iovec(h.iov, Len(h.iov))
                           ELSE h.bytes,
               !.addr = IF ev.type = "bind" THEN fill_addr(h.addr, Len(h.addr))
                                           ELSE NoAddr,
               !.force_bind = IF ev.type = "bind" THEN con.force_bind
                                                  ELSE FALSE]

\* The host program calls a wrapped entry point whose hook is built from
\* TCP_EV_PRELUDE / TCP_EV_POSTLUDE; the real call has returned.
HostCall(t) ==
    /\ pc[t] = "idle"
    /\ calls < MaxCalls
    /\ \E type \in HostHooks, bytes \in 1..MaxBytes :
         hk' = [hk EXCEPT ![t] =
                  [NoHook EXCEPT
                     !.type = type,
                     !.bytes = IF type \in SendFamily \cup RecvFamily
                                 THEN bytes ELSE 0,
                     !.return_value = IF type \in SendFamily \cup RecvFamily
                                        THEN bytes ELSE 0]]
    /\ pc' = [pc EXCEPT ![t] = "prelude"]
    /\ calls' = calls + 1
    /\ UNCHANGED << frame, pcap, connections_count, cons, files, log, slot, lock >>

\* The host program's socket() has returned the descriptor; tcp_ev_socket
\* starts with init_tcpsnitch().
HostSocket(t) ==
    /\ pc[t] = "idle"
    /\ calls < MaxCalls
    /\ hk' = [hk EXCEPT ![t] = [NoHook EXCEPT !.type = "socket",
                                              !.return_value = fd]]
    /\ pc' = [pc EXCEPT ![t] = "init"]
    /\ calls' = calls + 1
    /\ UNCHANGED << frame, pcap, connections_count, cons, files, log, slot, lock >>

\* The host program's close() has returned.
HostClose(t) ==
    /\ pc[t] = "idle"
    /\ calls < MaxCalls
    /\ \E return_value \in {0, -1}, detected \in BOOLEAN :
         hk' = [hk EXCEPT ![t] = [NoHook EXCEPT !.type = "close",
                                               !.return_value = return_value,
                                               !.err = IF return_value = -1
                                                         THEN EBADF ELSE 0,
                                               !.detected = detected]]
    /\ pc' = [pc EXCEPT ![t] = "close"]
    /\ calls' = calls + 1
    /\ UNCHANGED << frame, pcap, connections_count, cons, files, log, slot, lock >>

\* The next call of the script of the single-threaded host program: a
\* socket(), a close(), a call with a prelude/postlude hook, fork() (the
\* state follows the child, where the wrapper runs reset_tcpsnitch), exit()
\* (the atexit handlers run, then the process is gone), or "capture": the
\* wrapper of connect() calls tcp_start_capture(fd, addr) before the real
\* connect().
ScriptCall(t) ==
    /\ pc[t] = "idle"
    /\ calls < Len(script)
    /\ LET c == script[calls + 1]
           h == [NoHook EXCEPT !.type = c.op, !.fd = c.fd,
                               !.bytes = c.bytes,
                               !.return_value = c.return_value,
                               !.err = IF c.return_value = -1
                                         THEN EBADF ELSE 0,
                               !.iov = c.iov,
                               !.addr = c.addr, !.detected = c.detected]
       IN /\ pc' = [pc EXCEPT ![t] =
                      IF c.op = "socket" THEN "init"
                      ELSE IF c.op = "close" THEN "close"
                      ELSE IF c.op = "fork" THEN "reset"
                      ELSE IF c.op = "capture" THEN "capture"
                      ELSE IF c.op = "exit"
                        THEN (IF atexit_n = 0 THEN "exited" ELSE "cleanup")
                      ELSE "prelude"]
          /\ hk' = [hk EXCEPT ![t] =
                      IF c.op = "exit"
                        THEN [NoHook EXCEPT !.i = 0,
                                            !.handlers = atexit_n - 1]
                        ELSE h]
          /\ pid' = IF c.op = "fork" THEN pid + 1 ELSE pid
    /\ calls' = calls + 1
    /\ UNCHANGED << now, env, dirs, initialized, init_mutex, atexit_n,
                    conf_opt_b, conf_opt_u, conf_opt_e, conf_opt_d, script, fault, proc, pcap,
                    connections_count, cons, files, log, slot, lock >>

\* TCP_EV_PRELUDE that reads the slot without taking its mutex.
Prelude_nolock(t) ==
    /\ pc[t] = "prelude"
    /\ LET f == hk[t].fd IN
       IF slot[f] = NULL
         THEN /\ pc' = [pc EXCEPT ![t] = "idle"]
              /\ hk' = [hk EXCEPT ![t] = NoHook]
              /\ UNCHANGED lock
         ELSE /\ UNCHANGED lock
              /\ hk' = [hk EXCEPT ![t].con = slot[f],
                                  ![t].ev = alloc_event(hk[t].type,
                                                hk[t].return_value,
                                                hk[t].err,
                                                cons[slot[f]].events_count,
                                                now)]
              /\ pc' = [pc EXCEPT ![t] = "postlude"]
    /\ UNCHANGED << frame, pcap, connections_count, cons, files, log, slot, calls >>

\* TCP_EV_PRELUDE: get and lock the record, allocate the event with the id
\* con->events_count; return when the descriptor has no record, unlock and
\* return when alloc_event gives no event.
Prelude(t) ==
    /\ pc[t] = "prelude"
    /\ LET f == hk[t].fd IN
       IF slot[f] = NULL
         THEN /\ ra_get_and_lock_elem(t, f)
              /\ pc' = [pc EXCEPT ![t] = HookReturn(hk[t]).pc]
              /\ hk' = [hk EXCEPT ![t] = HookReturn(hk[t]).hk]
       ELSE IF Fails("alloc_event")
         THEN /\ mutex_lock(t, f)
              /\ ra_unlock_elem(t, f)
              /\ pc' = [pc EXCEPT ![t] = HookReturn(hk[t]).pc]
              /\ hk' = [hk EXCEPT ![t] = HookReturn(hk[t]).hk]
         ELSE /\ ra_get_and_lock_elem(t, f)
              /\ hk' = [hk EXCEPT ![t].con = slot[f],
                                  ![t].ev = alloc_event(hk[t].type,
                                                hk[t].return_value,
                                                hk[t].err,
                                                cons[slot[f]].events_count,
                                                now)]
              /\ pc' = [pc EXCEPT ![t] = "postlude"]
    /\ UNCHANGED << frame, pcap, connections_count, cons, files, log, slot, calls >>

\* TCP_EV_POSTLUDE without the test "ev_type_cons != TCP_EV_TCP_INFO".
Postlude_recursive(t) ==
    /\ pc[t] = "postlude"
    /\ LET c    == hk[t].con
           type == hk[t].type
           ev   == fill_event(hk[t].ev, cons[c], hk[t])
           con1 == hook_body(cons[c], ev, now)
           con2 == push_event(con1, ev)
           dump_tcp_info == should_dump_tcp_info(con2, now)
           p    == con2.directory
           d    == IF should_dump_json(con2)
                     THEN tcp_dump_json(con2, FileAt(p), FALSE)
                     ELSE [con |-> con2, file |-> FileAt(p),
                           segv |-> FALSE]
       IN /\ cons' = [cons EXCEPT ![c] = d.con]
          /\ files' = WriteFile(p, d.file)
          /\ log' = IF con2 = con1 THEN log
                                   ELSE [log EXCEPT ![c] = Append(@, ev)]
          /\ pc' = [pc EXCEPT ![t] = IF d.segv THEN "segv"
                                     ELSE IF dump_tcp_info THEN "fill_tcpinfo"
                                     ELSE HookReturn(hk[t]).pc]
          /\ hk' = [hk EXCEPT ![t] = IF d.segv THEN NoHook
                                     ELSE IF dump_tcp_info
                                       THEN [Caller(hk[t]) EXCEPT !.con = c]
                                     ELSE HookReturn(hk[t]).hk]
          /\ IF d.segv THEN UNCHANGED lock
                       ELSE ra_unlock_elem(t, hk[t].fd)
    /\ UNCHANGED << frame, pcap, connections_count, slot, calls >>

\* The body of the hook and TCP_EV_POSTLUDE up to ra_unlock_elem: fill the
\* event, update the record, push the event (log follows the list: it gets
\* the event when push_event linked it), decide the tcp_info event, flush
\* when should_dump_json, unlock.  A flush that reads freed memory may kill
\* the process (pc "segv").
Postlude(t) ==
    /\ pc[t] = "postlude"
    /\ LET c    == hk[t].con
           type == hk[t].type
           ev   == fill_event(hk[t].ev, cons[c], hk[t])
           con1 == hook_body(cons[c], ev, now)
           con2 == push_event(con1, ev)
           dump_tcp_info == should_dump_tcp_info(con2, now)
                              /\ type # "tcp_info"
           p    == con2.directory
           d    == IF should_dump_json(con2)
                     THEN tcp_dump_json(con2, FileAt(p), FALSE)
                     ELSE [con |-> con2, file |-> FileAt(p),
                           segv |-> FALSE]
       IN /\ cons' = [cons EXCEPT ![c] = d.con]
          /\ files' = WriteFile(p, d.file)
          /\ log' = IF con2 = con1 THEN log
                                   ELSE [log EXCEPT ![c] = Append(@, ev)]
          /\ pc' = [pc EXCEPT ![t] = IF d.segv THEN "segv"
                                     ELSE IF dump_tcp_info THEN "fill_tcpinfo"
                                     ELSE HookReturn(hk[t]).pc]
          /\ hk' = [hk EXCEPT ![t] = IF d.segv THEN NoHook
                                     ELSE IF dump_tcp_info
                                       THEN [Caller(hk[t]) EXCEPT !.con = c]
                                     ELSE HookReturn(hk[t]).hk]
          /\ IF d.segv THEN UNCHANGED lock
                       ELSE ra_unlock_elem(t, hk[t].fd)
    /\ UNCHANGED << frame, pcap, connections_count, slot, calls >>

\* The end of TCP_EV_POSTLUDE when dump_tcp_info: fill_tcpinfo() asks the
\* kernel, then tcp_ev_tcp_info is called with its result and errno.
FillTcpinfo(t) ==
    /\ pc[t] = "fill_tcpinfo"
    /\ \E r \in {0, -1}, e \in {EBADF, EOPNOTSUPP} :
         hk' = [hk EXCEPT ![t] = [Caller(hk[t]) EXCEPT
                                               !.type = "tcp_info",
                                               !.return_value = r,
                                               !.err = IF r = -1 THEN e
                                                                 ELSE 0]]
    /\ pc' = [pc EXCEPT ![t] = "prelude"]
    /\ UNCHANGED << frame, pcap, connections_count, cons, files, log, slot, lock,
                    calls >>

\* tcp_ev_socket that does not look for a record left in the table.
SocketPresent_nocheck(t) ==
    /\ pc[t] = "socket"
    /\ pc' = [pc EXCEPT ![t] = "socket_alloc"]
    /\ UNCHANGED hk
    /\ UNCHANGED << frame, pcap, connections_count, cons, files, log, slot, lock,
                    calls >>

\* tcp_ev_socket, the test for a record that was not closed: it is closed by
\* tcp_ev_close(fd, 0, 0, false) before the new record is made.
SocketPresent(t) ==
    /\ pc[t] = "socket"
    /\ IF ra_is_present(hk[t].fd)
         THEN /\ pc' = [pc EXCEPT ![t] = "close"]
              /\ hk' = [hk EXCEPT ![t].from_socket = TRUE,
                                  ![t].return_value = 0,
                                  ![t].detected = FALSE]
         ELSE /\ pc' = [pc EXCEPT ![t] = "socket_alloc"]
              /\ UNCHANGED hk
    /\ UNCHANGED << frame, pcap, connections_count, cons, files, log, slot, lock,
                    calls >>

\* tcp_ev_socket whose alloc_connection does not increment the counter.
SocketAlloc_noinc(t) ==
    /\ pc[t] = "socket_alloc"
    /\ LET ev  == alloc_event("socket", hk[t].fd, 0, 0, now)
           dir == create_numbered_dir_in_path(conf_opt_d, connections_count)
           con == push_event(alloc_connection(connections_count, dir), ev)
       IN /\ cons' = Append(cons, con)
          /\ log' = Append(log, << ev >>)
          /\ hk' = [hk EXCEPT ![t] = [NoHook EXCEPT !.type = "socket",
                                                    !.fd = hk[t].fd,
                                                    !.con = Len(cons) + 1]]
    /\ connections_count' = connections_count
    /\ pc' = [pc EXCEPT ![t] = "socket_put"]
    /\ UNCHANGED << frame, pcap, files, slot, lock, calls >>

\* tcp_ev_socket: alloc_connection, the socket event with id 0, push_event.
\* When alloc_event gives no event the hook returns and the new record is
\* left unreferenced; when push_event gives no node the record is put into
\* the table without its socket event.
SocketAlloc(t) ==
    /\ pc[t] = "socket_alloc"
    /\ LET ev  == alloc_event("socket", hk[t].fd, 0, 0, now)
           dir == create_numbered_dir_in_path(conf_opt_d, connections_count)
           new_con == alloc_connection(connections_count, dir)
           con == IF Fails("alloc_event") THEN new_con
                                          ELSE push_event(new_con, ev)
       IN /\ cons' = Append(cons, con)
          /\ log' = Append(log, IF con = new_con THEN << >> ELSE << ev >>)
          /\ hk' = [hk EXCEPT ![t] =
                      IF Fails("alloc_event") THEN NoHook
                      ELSE [NoHook EXCEPT !.type = "socket",
                                          !.fd = hk[t].fd,
                                          !.con = Len(cons) + 1]]
    /\ connections_count' = connections_count + 1
    /\ pc' = [pc EXCEPT ![t] = IF Fails("alloc_event") THEN "idle"
                                                       ELSE "socket_put"]
    /\ UNCHANGED << frame, pcap, files, slot, lock, calls >>

\* tcp_ev_socket: ra_put_elem(fd, new_con); when the slot is taken the hook
\* fails and the new record is left unreferenced.
SocketPut(t) ==
    /\ pc[t] = "socket_put"
    /\ ra_put_elem(t, hk[t].fd, hk[t].con)
    /\ pc' = [pc EXCEPT ![t] = "idle"]
    /\ hk' = [hk EXCEPT ![t] = NoHook]
    /\ UNCHANGED << frame, pcap, connections_count, cons, files, log, calls >>

\* Where tcp_ev_close returns to: tcp_ev_socket, the loop of
\* tcp_close_unclosed_connections, or the host program.
CloseReturn(h) ==
    [ pc |-> IF h.from_socket THEN "socket_alloc"
             ELSE IF h.i # Unset THEN "cleanup"
             ELSE "idle",
      hk |-> IF h.from_socket
               THEN [NoHook EXCEPT !.type = "socket", !.fd = h.fd]
             ELSE IF h.i # Unset
               THEN [NoHook EXCEPT !.i = h.i + 1, !.handlers = h.handlers]
             ELSE NoHook ]

\* The close event without ev->detected = detected.
close_event_nodetected(h, con, ts) ==
    alloc_event("close", h.return_value, h.err, con.events_count, ts)

\* tcp_ev_close: the close event, with the detected flag the caller passed.
close_event(h, con, ts) ==
    [alloc_event("close", h.return_value, h.err, con.events_count, ts)
       EXCEPT !.detected = h.detected]

\* tcp_ev_close: ra_remove_elem(fd); return when the slot was empty.
CloseRemove(t) ==
    /\ pc[t] = "close"
    /\ ra_remove_elem(t, hk[t].fd)
    /\ IF slot[hk[t].fd] = NULL
         THEN /\ pc' = [pc EXCEPT ![t] = CloseReturn(hk[t]).pc]
              /\ hk' = [hk EXCEPT ![t] = CloseReturn(hk[t]).hk]
         ELSE /\ pc' = [pc EXCEPT ![t] = "close_finish"]
              /\ hk' = [hk EXCEPT ![t].con = slot[hk[t].fd]]
    /\ UNCHANGED << frame, pcap, connections_count, cons, files, log, calls >>

\* stop_capture on a handle whose worker has ended by itself and closed it:
\* pcap_breakloop reads the freed pcap_t, which may kill the process.
StopCaptureKills(con) ==
    /\ con.capture_switch # NULL
    /\ ~pcap[con.capture_switch].open
    /\ fault.ub = "segv"

\* The record has a capture handle and stop_capture has not returned for it.
MustStopCapture(con) ==
    /\ con.capture_switch # NULL
    /\ pcap[con.capture_switch].result = Unset

\* tcp_ev_close after alloc_event, for a record with a capture handle:
\* stop_capture starts with pcap_breakloop, which sets the flag the loop of
\* the worker tests.
StopCapture(t) ==
    /\ pc[t] = "close_finish"
    /\ ~Fails("alloc_event")
    /\ MustStopCapture(cons[hk[t].con])
    /\ LET h == cons[hk[t].con].capture_switch
       IN IF StopCaptureKills(cons[hk[t].con])
            THEN /\ pc' = [pc EXCEPT ![t] = "segv"]
                 /\ UNCHANGED pcap
            ELSE /\ pc' = [pc EXCEPT ![t] = "join"]
                 /\ pcap' = [pcap EXCEPT ![h].brk = TRUE]
    /\ UNCHANGED << frame, connections_count, cons, files, log, slot, lock,
                    hk, calls >>

\* stop_capture whose pthread_join does not wait for the worker.
StopCaptureJoin_nowait(t) ==
    /\ pc[t] = "join"
    /\ LET h == cons[hk[t].con].capture_switch
       IN pcap' = [pcap EXCEPT ![h].result =
                     IF pcap[h].worker = "ended" THEN pcap[h].pcount ELSE 0]
    /\ pc' = [pc EXCEPT ![t] = "close_finish"]
    /\ UNCHANGED << frame, connections_count, cons, files, log, slot, lock,
                    hk, calls >>

\* stop_capture, pthread_join: wait until the worker has ended and return
\* the result of its pcap_loop; -3 at once when pthread_join fails.
StopCaptureJoin(t) ==
    /\ pc[t] = "join"
    /\ LET h == cons[hk[t].con].capture_switch
       IN IF Fails("pthread_join")
            THEN pcap' = [pcap EXCEPT ![h].result = -3]
            ELSE /\ pcap[h].worker = "ended"
                 /\ pcap' = [pcap EXCEPT ![h].result = pcap[h].pcount]
    /\ pc' = [pc EXCEPT ![t] = "close_finish"]
    /\ UNCHANGED << frame, connections_count, cons, files, log, slot, lock,
                    hk, calls >>

\* tcp_ev_close on the removed record: the close event with its detected
\* flag, (stop_capture when the record has a capture handle: StopCapture,
\* StopCaptureJoin,) push_event, the final tcp_dump_json, free_connection.
\* When alloc_event gives no event the hook returns at once ("goto error"):
\* the record, already out of the table, is neither flushed nor freed.
CloseFinish(t) ==
    /\ pc[t] = "close_finish"
    /\ IF Fails("alloc_event") THEN TRUE
                               ELSE ~MustStopCapture(cons[hk[t].con])
    /\ LET c    == hk[t].con
           ev   == close_event(hk[t], cons[c], now)
           con1 == push_event(cons[c], ev)
           p    == con1.directory
           d    == tcp_dump_json(con1, FileAt(p), TRUE)
       IN IF Fails("alloc_event")
            THEN /\ UNCHANGED << cons, files, log >>
                 /\ pc' = [pc EXCEPT ![t] = CloseReturn(hk[t]).pc]
            ELSE /\ cons' = [cons EXCEPT ![c] =
                               IF d.segv THEN d.con
                               ELSE [d.con EXCEPT !.events = << >>,
                                                  !.dangling = 0,
                                                  !.freed = TRUE]]
                 /\ files' = WriteFile(p, d.file)
                 /\ log' = IF con1 = cons[c] THEN log
                           ELSE [log EXCEPT ![c] = Append(@, ev)]
                 /\ pc' = [pc EXCEPT ![t] = IF d.segv THEN "segv"
                                            ELSE CloseReturn(hk[t]).pc]
    /\ hk' = [hk EXCEPT ![t] = CloseReturn(hk[t]).hk]
    /\ UNCHANGED << frame, pcap, connections_count, slot, lock, calls >>

\* tcp_close_unclosed_connections whose loop stops one descriptor early.
Cleanup_short(t) ==
    /\ pc[t] = "cleanup"
    /\ LET i == hk[t].i IN
       IF i >= ra_get_size - 1
         THEN /\ pc' = [pc EXCEPT ![t] = IF hk[t].handlers > 0
                                           THEN "cleanup" ELSE "exited"]
              /\ hk' = [hk EXCEPT ![t] =
                          IF hk[t].handlers > 0
                            THEN [NoHook EXCEPT !.i = 0,
                                                !.handlers = hk[t].handlers - 1]
                            ELSE NoHook]
       ELSE IF i \in Fds /\ ra_is_present(i)
         THEN /\ pc' = [pc EXCEPT ![t] = "close"]
              /\ hk' = [hk EXCEPT ![t].type = "close", ![t].fd = i,
                                  ![t].return_value = 0,
                                  ![t].detected = FALSE]
         ELSE /\ pc' = pc
              /\ hk' = [hk EXCEPT ![t].i = i + 1]
    /\ UNCHANGED << frame, pcap, connections_count, cons, files, log, slot, lock,
                    calls >>

\* cleanup, the atexit handler: one turn of the loop of
\* tcp_close_unclosed_connections, which calls tcp_ev_close(i, 0, 0, false)
\* for every descriptor below ra_get_size() that has a record.  After the
\* loop the next handler runs (cleanup again when init ran more than once
\* in the history of the process), then the process is gone.
Cleanup(t) ==
    /\ pc[t] = "cleanup"
    /\ LET i == hk[t].i IN
       IF i >= ra_get_size
         THEN /\ pc' = [pc EXCEPT ![t] = IF hk[t].handlers > 0
                                           THEN "cleanup" ELSE "exited"]
              /\ hk' = [hk EXCEPT ![t] =
                          IF hk[t].handlers > 0
                            THEN [NoHook EXCEPT !.i = 0,
                                                !.handlers = hk[t].handlers - 1]
                            ELSE NoHook]
       ELSE IF i \in Fds /\ ra_is_present(i)
         THEN /\ pc' = [pc EXCEPT ![t] = "close"]
              /\ hk' = [hk EXCEPT ![t].type = "close", ![t].fd = i,
                                  ![t].return_value = 0,
                                  ![t].detected = FALSE]
         ELSE /\ pc' = pc
              /\ hk' = [hk EXCEPT ![t].i = i + 1]
    /\ UNCHANGED << frame, pcap, connections_count, cons, files, log, slot, lock,
                    calls >>

\* --------------------------------------------------- tcp_start_capture

\* The steps of start_capture that can fail: each returns NULL.
StartCaptureFaults ==
    {"pcap_open_live", "pcap_compile", "pcap_setfilter", "pcap_dump_open",
     "pthread_create"}

\* tcp_start_capture: get and lock the record (return when there is none).
\* For a socket that is not bound, con = NULL, the slot is unlocked and
\* force_bind is called; else the capture is started under the lock.
CaptureEnter(t) ==
    /\ pc[t] = "capture"
    /\ LET f == hk[t].fd IN
       /\ mutex_lock(t, f)
       /\ IF slot[f] = NULL
            THEN /\ lock' = [lock EXCEPT ![f] = NULL]
                 /\ pc' = [pc EXCEPT ![t] = "idle"]
                 /\ hk' = [hk EXCEPT ![t] = NoHook]
          ELSE IF ~cons[slot[f]].bound
            THEN /\ lock' = [lock EXCEPT ![f] = NULL]
                 /\ pc' = [pc EXCEPT ![t] = "force_bind"]
                 /\ hk' = [hk EXCEPT ![t].con = NULL]
            ELSE /\ lock' = [lock EXCEPT ![f] = t]
                 /\ pc' = [pc EXCEPT ![t] = "capture_start"]
                 /\ hk' = [hk EXCEPT ![t].con = slot[f]]
    /\ UNCHANGED << frame, pcap, connections_count, cons, files, log, slot,
                    calls >>

\* force_bind(fd, con, ..) as tcp_start_capture calls it, with con == NULL:
\* "con->force_bind = true" stores through the null pointer.  The process
\* is killed, or the store is dropped and the loop over the ports starts;
\* no record gets force_bind = true.
ForceBind(t) ==
    /\ pc[t] = "force_bind"
    /\ pc' = [pc EXCEPT ![t] = IF fault.ub = "segv" THEN "segv"
                                                    ELSE "force_bind_try"]
    /\ hk' = [hk EXCEPT ![t].port = MIN_PORT]
    /\ UNCHANGED << frame, pcap, connections_count, cons, files, log, slot,
                    lock, calls >>

\* force_bind: rc = bind(fd, port).  bind() is a wrapped entry point: the
\* real call returns 0 or -1 (the port is in use, or another error) and its
\* hook tcp_ev_bind runs with that result.
ForceBindTry(t) ==
    /\ pc[t] = "force_bind_try"
    /\ \E rc \in {0, -1}, e \in {EADDRINUSE, EBADF} :
         hk' = [hk EXCEPT ![t] =
                  [Caller(hk[t]) EXCEPT
                     !.type = "bind",
                     !.return_value = rc,
                     !.err = IF rc = 0 THEN 0 ELSE e,
                     !.addr = << AF_INET, hk[t].port >>,
                     !.rc = rc,
                     !.errno = IF rc = 0 THEN 0 ELSE e]]
    /\ pc' = [pc EXCEPT ![t] = "prelude"]
    /\ UNCHANGED << frame, pcap, connections_count, cons, files, log, slot,
                    lock, calls >>

\* force_bind after bind() returned: stop when it succeeded or failed with
\* an error other than EADDRINUSE, else try the next port up to MAX_PORT;
\* then tcp_start_capture goes on.
ForceBindRc(t) ==
    /\ pc[t] = "force_bind_rc"
    /\ LET again == /\ hk[t].rc # 0
                    /\ hk[t].errno = EADDRINUSE
                    /\ hk[t].port + 1 <= MAX_PORT
       IN /\ pc' = [pc EXCEPT ![t] = IF again THEN "force_bind_try"
                                              ELSE "capture_relock"]
          /\ hk' = [hk EXCEPT ![t].port = IF again THEN hk[t].port + 1
                                                   ELSE Unset,
                              ![t].rc = 0,
                              ![t].errno = 0]
    /\ UNCHANGED << frame, pcap, connections_count, cons, files, log, slot,
                    lock, calls >>

\* tcp_start_capture after force_bind: get and lock the record again.
CaptureRelock(t) ==
    /\ pc[t] = "capture_relock"
    /\ ra_get_and_lock_elem(t, hk[t].fd)
    /\ IF slot[hk[t].fd] = NULL
         THEN /\ pc' = [pc EXCEPT ![t] = "idle"]
              /\ hk' = [hk EXCEPT ![t] = NoHook]
         ELSE /\ pc' = [pc EXCEPT ![t] = "capture_start"]
              /\ hk' = [hk EXCEPT ![t].con = slot[hk[t].fd]]
    /\ UNCHANGED << frame, pcap, connections_count, cons, files, log, slot,
                    calls >>

\* tcp_start_capture under the lock: the pcap path and the filter (with the
\* bound address when the socket is bound), then con->capture_switch =
\* start_capture(..): a new handle with its worker thread, or NULL when a
\* step of start_capture fails.  The slot is unlocked on the two error
\* paths only (error1, error2): after start_capture the function returns
\* with the slot locked.
CaptureStart(t) ==
    /\ pc[t] = "capture_start"
    /\ LET c == hk[t].con
           f == hk[t].fd
       IN IF Fails("pcap_path") \/ Fails("capture_filter")
            THEN /\ ra_unlock_elem(t, f)
                 /\ UNCHANGED << cons, pcap >>
          ELSE IF fault.kind \in StartCaptureFaults /\ fault.call = calls
            THEN /\ cons' = [cons EXCEPT ![c].capture_switch = NULL]
                 /\ UNCHANGED << lock, pcap >>
            ELSE /\ pcap' = Append(pcap,
                               [ open   |-> TRUE,
                                 worker |-> "running",
                                 brk    |-> FALSE,
                                 closes |-> 0,
                                 dump_closes |-> 0,
                                 pcount |-> Unset,
                                 result |-> Unset,
                                 to     |-> hk[t].addr,
                                 from   |-> IF cons[c].bound
                                              THEN cons[c].bound_addr
                                              ELSE NoAddr ])
                 /\ cons' = [cons EXCEPT
                               ![c].capture_switch = Len(pcap) + 1]
                 /\ UNCHANGED lock
    /\ pc' = [pc EXCEPT ![t] = "idle"]
    /\ hk' = [hk EXCEPT ![t] = NoHook]
    /\ UNCHANGED << frame, connections_count, files, log, slot, calls >>

\* capture_thread after pcap_loop returned n: pcap_close, pcap_dump_close,
\* and the thread ends with n as its result.
capture_thread(h, n) ==
    [pcap EXCEPT ![h].open = FALSE,
                 ![h].closes = @ + 1,
                 ![h].dump_closes = @ + 1,
                 ![h].pcount = n,
                 ![h].worker = "ended"]

\* capture_thread: pcap_loop returns by itself with -1 (an error of the
\* capture device), whether pcap_breakloop was called or not.
CaptureThreadEnds ==
    /\ \E h \in DOMAIN pcap :
         /\ pcap[h].worker = "running"
         /\ pcap' = capture_thread(h, -1)
    /\ UNCHANGED << frame, connections_count, cons, files, log, slot, lock,
                    pc, hk, calls >>

\* capture_thread: pcap_loop sees the flag of pcap_breakloop and returns -2.
CaptureThreadBreaks ==
    /\ \E h \in DOMAIN pcap :
         /\ pcap[h].worker = "running"
         /\ pcap[h].brk
         /\ pcap' = capture_thread(h, -2)
    /\ UNCHANGED << frame, connections_count, cons, files, log, slot, lock,
                    pc, hk, calls >>

\* The clock advances.
Tick ==
    /\ now < MaxTime
    /\ now' = now + 1
    /\ UNCHANGED << env, dirs, pid, initialized, init_mutex, atexit_n,
                    conf_opt_b, conf_opt_u, conf_opt_e, conf_opt_d, script, fault, proc, pcap,
                    connections_count, cons, files, log, slot, lock, pc, hk,
                    calls >>

Next ==
    \/ Tick
    \/ \E t \in Threads :
         \/ HostCall(t)
         \/ HostSocket(t)
         \/ HostClose(t)
         \/ InitEnter(t)
         \/ InitBody(t)
         \/ Prelude(t)
         \/ Postlude(t)
         \/ FillTcpinfo(t)
         \/ SocketPresent(t)
         \/ SocketAlloc(t)
         \/ SocketPut(t)
         \/ CloseRemove(t)
         \/ CloseFinish(t)

Spec == Init /\ [][Next]_vars

\* Spec with a fair scheduler: a thread inside a hook goes on whenever it can
\* (a thread that waits for a slot mutex gets it once it stays free).
SpecFair ==
    /\ Init
    /\ [][Next]_vars
    /\ \A t \in Threads :
         WF_vars(Prelude(t) \/ Postlude(t) \/ FillTcpinfo(t))

\* --------------------------------------- the single-threaded host program

\* The calls a script is drawn from.
HostOps ==
    { Call("socket", 5, 0, 5, NoAddr, FALSE),
      Call("socket", 3, 0, 3, NoAddr, FALSE),
      Call("close", 5, 0, 0, NoAddr, TRUE),
      Call("close", 5, 0, -1, NoAddr, FALSE),
      Call("send", 5, 1, 1, NoAddr, FALSE),
      Call("bind", 5, 0, 0, << 10, 1 >>, FALSE),
      Call("bind", 5, 0, -1, << 10, 2 >>, FALSE),
      Call("fork", 5, 0, 0, NoAddr, FALSE),
      Call("exit", 5, 0, 0, NoAddr, FALSE) }

\* The minimal TCP client: socket() returns 5, connect, write of 100 bytes,
\* close.
MinimalClient ==
    << Call("socket", 5, 0, 5, NoAddr, FALSE),
       Call("connect", 5, 0, 0, NoAddr, FALSE),
       Call("write", 5, 100, 100, NoAddr, FALSE),
       Call("close", 5, 0, 0, NoAddr, TRUE) >>

\* A socket and sends of 500, 600 and 500 bytes.
ThreeSends ==
    << Call("socket", 5, 0, 5, NoAddr, FALSE),
       Call("send", 5, 500, 500, NoAddr, FALSE),
       Call("send", 5, 600, 600, NoAddr, FALSE),
       Call("send", 5, 500, 500, NoAddr, FALSE) >>

\* Two live connections, one of them with an event after its socket event,
\* then exit().
TwoLiveAtExit ==
    << Call("socket", 3, 0, 3, NoAddr, FALSE),
       Call("socket", 5, 0, 5, NoAddr, FALSE),
       Call("send", 5, 1, 1, NoAddr, FALSE),
       Call("exit", 5, 0, 0, NoAddr, FALSE) >>

\* A connection made and used by the parent, fork(), and in the child a call
\* on the inherited descriptor, a new socket on it and exit().
ForkAndReuse ==
    << Call("socket", 5, 0, 5, NoAddr, FALSE),
       Call("send", 5, 1, 1, NoAddr, FALSE),
       Call("fork", 5, 0, 0, NoAddr, FALSE),
       Call("send", 5, 1, 1, NoAddr, FALSE),
       Call("socket", 5, 0, 5, NoAddr, FALSE),
       Call("exit", 5, 0, 0, NoAddr, FALSE) >>

\* The scripts of SpecHost: every sequence of at most MaxScript calls of
\* HostOps, and the scenarios above.
Scripts ==
    UNION { [1..n -> HostOps] : n \in 0..MaxScript }
        \cup { MinimalClient, ThreeSends, TwoLiveAtExit, ForkAndReuse }

\* The environments of SpecHost: the options unset (the defaults 4096, 0 and
\* 1000 of init_tcpsnitch) or set.
HostEnvs == [ b : {Unset, 0, 1024}, u : {Unset, 1}, e : {Unset, 1, 2},
              d : {"ok"} ]

InitHost ==
    /\ Boot
    /\ env \in HostEnvs
    /\ script \in Scripts
    /\ fault = NoFault
    /\ proc = NoProcs

\* The steps of the hooks, of init and of the atexit handler in thread t.
Library(t) ==
    \/ InitEnter(t)
    \/ InitBody(t)
    \/ Reset(t)
    \/ Prelude(t)
    \/ Postlude(t)
    \/ FillTcpinfo(t)
    \/ SocketPresent(t)
    \/ SocketAlloc(t)
    \/ SocketPut(t)
    \/ CloseRemove(t)
    \/ CloseFinish(t)
    \/ Cleanup(t)

NextHost ==
    \/ Tick
    \/ ScriptCall(1)
    \/ Library(1)

SpecHost == InitHost /\ [][NextHost]_vars

\* The environments in which init_tcpsnitch gets no output directory.
InitDegraded ==
    /\ Boot
    /\ env \in [ b : {Unset, 0}, u : {Unset}, e : {Unset, 1},
                 d : EnvD \ {"ok"} ]
    /\ script \in Scripts
    /\ fault = NoFault
    /\ proc = NoProcs

SpecDegraded == InitDegraded /\ [][NextHost]_vars


\* The calls of the scripts of SpecBytes: data transfers that are complete,
\* short or failed, with a byte count or with an iovec array (empty, small,
\* or with lengths whose sum does not fit socklen_t).
BytesOps ==
    { Call("socket", 5, 0, 5, NoAddr, FALSE),
      Call("send", 5, 1, 1, NoAddr, FALSE),
      Call("read", 5, 1, 0, NoAddr, FALSE),
      Call("write", 5, 1, -1, NoAddr, FALSE),
      CallV("writev", 5, << 1, 0, 1 >>, 1),
      CallV("writev", 5, << SOCKLEN_MOD \div 2, SOCKLEN_MOD \div 2 >>,
            SOCKLEN_MOD \div 2),
      CallV("readv", 5, << >>, 0),
      CallV("sendmsg", 5, << 1 >>, -1),
      CallV("recvmsg", 5, << SOCKLEN_MOD - 1, 1, 1 >>, 1),
      Call("fork", 5, 0, 0, NoAddr, FALSE),
      Call("exit", 5, 0, 0, NoAddr, FALSE) }

\* A socket and then any calls of BytesOps.
BytesScripts ==
    { << Call("socket", 5, 0, 5, NoAddr, FALSE) >> \o s :
        s \in UNION { [1..n -> BytesOps] : n \in 0..MaxScript - 1 } }

InitBytes ==
    /\ Boot
    /\ env \in [ b : {Unset, 0}, u : {Unset}, e : {Unset, 1}, d : {"ok"} ]
    /\ script \in BytesScripts
    /\ fault = NoFault
    /\ proc = NoProcs

SpecBytes == InitBytes /\ [][NextHost]_vars

\* The failures of SpecFaults: one operation fails during one wrapped call.
\* my_calloc in alloc_event, my_malloc in push_event and in fill_iovec,
\* alloc_json_path_str and fopen in tcp_dump_json fail in one way;
\* alloc_tcp_ev_json fails at the first or the second event of the list, and
\* the freed nodes it leaves behind are later read either way; fclose fails
\* with the output lost or written.
Faults ==
    [ kind : {"alloc_event", "push_event", "iovec_sizes", "json_path",
              "fopen"},
      call : 1..MaxScript, at : {1}, ub : {"segv"},
      relock : {"blocks"} ]
    \cup [ kind : {"json"}, call : 1..MaxScript, at : {1, 2},
           ub : {"segv", "goes_on"}, relock : {"blocks"} ]
    \cup [ kind : {"fclose"}, call : 1..MaxScript, at : {1, 2},
           ub : {"segv"}, relock : {"blocks"} ]

\* The calls of the scripts of SpecFaults.
FaultOps ==
    { Call("socket", 5, 0, 5, NoAddr, FALSE),
      Call("send", 5, 1, 1, NoAddr, FALSE),
      Call("bind", 5, 0, 0, << 10, 1 >>, FALSE),
      CallV("writev", 5, << 1, 1 >>, 2),
      Call("close", 5, 0, 0, NoAddr, TRUE),
      Call("fork", 5, 0, 0, NoAddr, FALSE),
      Call("exit", 5, 0, 0, NoAddr, FALSE) }

\* A socket and then any calls of FaultOps.
FaultScripts ==
    { << Call("socket", 5, 0, 5, NoAddr, FALSE) >> \o s :
        s \in UNION { [1..n -> FaultOps] : n \in 0..MaxScript - 1 } }

InitFaults ==
    /\ Boot
    /\ env \in [ b : {Unset, 0}, u : {Unset}, e : {1, 2}, d : {"ok"} ]
    /\ script \in FaultScripts
    /\ fault \in Faults
    /\ proc = NoProcs

SpecFaults == InitFaults /\ [][NextHost]_vars

\* The failures of SpecCapture: none, or one step of the capture setup or the
\* pthread_join of stop_capture fails during the second or third call of
\* the script; in each case either
\* outcome of an invalid memory access and either behaviour of a slot mutex
\* locked again by its holder.
CaptureFaults ==
    [ kind : {"none"}, call : {0}, at : {0}, ub : {"segv", "goes_on"},
      relock : {"blocks", "proceeds"} ]
    \cup
    [ kind : {"pcap_path", "capture_filter", "pthread_join"}
               \cup StartCaptureFaults,
      call : {2, 3}, at : {1}, ub : {"segv", "goes_on"},
      relock : {"blocks", "proceeds"} ]

\* The calls of the scripts of SpecCapture; "capture" is the call of
\* tcp_start_capture by the wrapper of connect(), before the real connect().
CaptureOps ==
    { Call("capture", 5, 0, 0, << AF_INET, 443 >>, FALSE),
      Call("connect", 5, 0, 0, << AF_INET, 443 >>, FALSE),
      Call("close", 5, 0, 0, NoAddr, TRUE),
      Call("fork", 5, 0, 0, NoAddr, FALSE),
      Call("exit", 5, 0, 0, NoAddr, FALSE) }

\* A socket, bound by the host program or not, a capture started on it, and
\* then any calls of CaptureOps.
CaptureScripts ==
    { p \o << Call("capture", 5, 0, 0, << AF_INET, 443 >>, FALSE) >> \o s :
        p \in { << Call("socket", 5, 0, 5, NoAddr, FALSE) >>,
                << Call("socket", 5, 0, 5, NoAddr, FALSE),
                   Call("bind", 5, 0, 0, << AF_INET, 1 >>, FALSE) >> },
        s \in UNION { [1..n -> CaptureOps] : n \in 0..(MaxScript - 1) } }

InitCapture ==
    /\ Boot
    /\ env = [ b |-> Unset, u |-> Unset, e |-> 1, d |-> "ok" ]
    /\ script \in CaptureScripts
    /\ fault \in CaptureFaults
    /\ proc = NoProcs

\* The steps of tcp_start_capture and force_bind in thread t.
Capture(t) ==
    \/ CaptureEnter(t)
    \/ ForceBind(t)
    \/ ForceBindTry(t)
    \/ ForceBindRc(t)
    \/ CaptureRelock(t)
    \/ CaptureStart(t)

\* The steps of SpecCapture.  The clock stands still (no step of the capture
\* reads it) and no tcp_info event is due (opt_b and opt_u are unset, and
\* no script transfers the 4096 bytes of the default), so Tick and
\* FillTcpinfo have no step here.
NextCapture ==
    \/ ScriptCall(1)
    \/ InitEnter(1)
    \/ InitBody(1)
    \/ Reset(1)
    \/ Prelude(1)
    \/ Postlude(1)
    \/ SocketPresent(1)
    \/ SocketAlloc(1)
    \/ SocketPut(1)
    \/ CloseRemove(1)
    \/ StopCapture(1)
    \/ StopCaptureJoin(1)
    \/ CloseFinish(1)
    \/ Cleanup(1)
    \/ Capture(1)
    \/ CaptureThreadEnds
    \/ CaptureThreadBreaks

SpecCapture == InitCapture /\ [][NextCapture]_vars

\* SpecCapture with a thread that returns from pthread_join when it can.
\* Nothing is assumed of the worker: its loop sees the flag of
\* pcap_breakloop only when a packet or an error wakes it.
SpecCaptureFair ==
    /\ InitCapture
    /\ [][NextCapture]_vars
    /\ WF_vars(StopCaptureJoin(1))

\* ------------------------------- processes that start at the same time

\* The processes that run init_tcpsnitch on one base directory (a parent,
\* its forked children, or separate programs).
Procs == {1, 2, 3}

\* create_logs_dir, one turn of the loop in process p: opendir(<base>/<i>)
\* succeeds when the directory exists, and i is incremented; it fails with
\* ENOENT when it does not, and the loop is left.
LogsDirScan(p) ==
    /\ proc[p].pc = "opendir"
    /\ proc' = [proc EXCEPT ![p] =
                  IF proc[p].i < Len(dirs)
                    THEN [proc[p] EXCEPT !.i = @ + 1]
                    ELSE [proc[p] EXCEPT !.pc = "mkdir"]]
    /\ UNCHANGED << now, env, dirs, pid, initialized, init_mutex, atexit_n,
                    conf_opt_b, conf_opt_u, conf_opt_e, conf_opt_d, script,
                    fault, pcap, connections_count, cons, files, log, slot,
                    lock, pc, hk, calls >>

\* create_logs_dir whose mkdir takes a directory that exists for its own.
LogsDirMkdir_adopt(p) ==
    /\ proc[p].pc = "mkdir"
    /\ dirs' = IF proc[p].i < Len(dirs) THEN dirs ELSE Append(dirs, p)
    /\ proc' = [proc EXCEPT ![p].pc = "done", ![p].conf_opt_d = proc[p].i]
    /\ UNCHANGED << now, env, pid, initialized, init_mutex, atexit_n,
                    conf_opt_b, conf_opt_u, conf_opt_e, conf_opt_d, script,
                    fault, pcap, connections_count, cons, files, log, slot,
                    lock, pc, hk, calls >>

\* create_logs_dir, mkdir(<base>/<i>) in process p: the directory is made
\* and its path returned, or, when another process has made it since the
\* opendir, mkdir fails and NULL is returned: init_tcpsnitch goes on with
\* conf_opt_d = NULL.
LogsDirMkdir(p) ==
    /\ proc[p].pc = "mkdir"
    /\ IF proc[p].i < Len(dirs)
         THEN /\ proc' = [proc EXCEPT ![p].pc = "done",
                                      ![p].conf_opt_d = Unset]
              /\ UNCHANGED dirs
         ELSE /\ proc' = [proc EXCEPT ![p].pc = "done",
                                      ![p].conf_opt_d = proc[p].i]
              /\ dirs' = Append(dirs, p)
    /\ UNCHANGED << now, env, pid, initialized, init_mutex, atexit_n,
                    conf_opt_b, conf_opt_u, conf_opt_e, conf_opt_d, script,
                    fault, pcap, connections_count, cons, files, log, slot,
                    lock, pc, hk, calls >>

\* Every process is at the start of create_logs_dir (i = 0); the base
\* directory is empty.
InitDirs ==
    /\ Boot
    /\ env = [ b |-> Unset, u |-> Unset, e |-> Unset, d |-> "ok" ]
    /\ script = << >>
    /\ fault = NoFault
    /\ proc = [p \in Procs |-> [pc |-> "opendir", i |-> 0,
                                conf_opt_d |-> Unset]]

NextDirs == \E p \in Procs : LogsDirScan(p) \/ LogsDirMkdir(p)

SpecDirs == InitDirs /\ [][NextDirs]_vars
\* =====================================================================
\* Properties
\* =====================================================================

Connections == DOMAIN cons

\* The events.json of the record c.
FileOf(c) == FileAt(cons[c].directory)

\* The sum of the bytes fields of the events of evs whose type is in family.
RECURSIVE SumBytes(_, _)
SumBytes(evs, family) ==
    IF evs = << >> THEN 0
    ELSE (IF Head(evs).type \in family THEN Head(evs).bytes ELSE 0)
         + SumBytes(Tail(evs), family)

\* The number of events of evs whose type is in types.
RECURSIVE CountTypes(_, _)
CountTypes(evs, types) ==
    IF evs = << >> THEN 0
    ELSE (IF Head(evs).type \in types THEN 1 ELSE 0)
         + CountTypes(Tail(evs), types)

Quiescent == \A t \in Threads : pc[t] = "idle"

\* C1: the k-th event ever appended to a connection has id k (counting from
\* 0): ids are dense, none skipped, none used twice.
C1_DenseIds ==
    \A c \in Connections :
        \A k \in DOMAIN log[c] : log[c][k].id = k - 1

\* C1 witness: a connection that was flushed (non-final) and then got more
\* events, four or more in all.
C1_Witness ==
    \E c \in Connections :
        /\ Len(log[c]) >= 4
        /\ cons[c].last_json_dump_evcount >= 1
        /\ cons[c].events_count > cons[c].last_json_dump_evcount
        /\ ~cons[c].freed

\* C2: within one connection the timestamps do not decrease in id order.
C2_MonotoneTimestamps ==
    \A c \in Connections :
        \A i, j \in DOMAIN log[c] :
            log[c][i].id < log[c][j].id
                => log[c][i].timestamp <= log[c][j].timestamp

\* C2 witness: three events or more on a connection, the clock having
\* advanced between two of them, hooks of both threads under way.
C2_Witness ==
    \E c \in Connections :
        /\ Len(log[c]) >= 3
        /\ log[c][1].timestamp < log[c][Len(log[c])].timestamp
        /\ \E i \in 2..Len(log[c]) : log[c][i].timestamp = log[c][i-1].timestamp

\* C3: bytes_sent is the sum of the bytes of the send-family events appended
\* so far, bytes_received the sum over the receive-family events.
C3_ByteCounters ==
    \A c \in Connections :
        /\ cons[c].bytes_sent = SumBytes(log[c], SendFamily)
        /\ cons[c].bytes_received = SumBytes(log[c], RecvFamily)

\* C3 witness: a connection that has sent and received, after a flush.
C3_Witness ==
    \E c \in Connections :
        /\ cons[c].bytes_sent > 0
        /\ cons[c].bytes_received > 0
        /\ cons[c].events = << >>

\* The file without its white space: "[\n" is "[", ",\n" is ",", "\n" is
\* dropped.
RECURSIVE Tokens(_)
Tokens(f) ==
    IF f = << >> THEN << >>
    ELSE LET h == Head(f) IN
         (IF h.s = "\n" THEN << >>
          ELSE IF h.s = "[\n" THEN << [s |-> "[", ev |-> -1] >>
          ELSE IF h.s = ",\n" THEN << [s |-> ",", ev |-> -1] >>
          ELSE << h >>)
         \o Tokens(Tail(f))

\* A JSON array of the n events 0 .. n-1: [ e0 , e1 , ... ]
JsonArrayOf(f, n) ==
    LET toks == Tokens(f) IN
    /\ n >= 1
    /\ Len(toks) = 2 * n + 1
    /\ toks[1].s = "["
    /\ toks[2 * n + 1].s = "]"
    /\ \A k \in 1..n : toks[2 * k].s = "json" /\ toks[2 * k].ev = k - 1
    /\ \A k \in 1..(n - 1) : toks[2 * k + 1].s = ","

\* C4: once the close hook has finished, events.json is a JSON array holding
\* every event of the connection once, in id order.
C4_ValidJsonAfterClose ==
    \A c \in Connections :
        cons[c].freed => JsonArrayOf(FileOf(c), Len(log[c]))

\* C4 witness: a closed connection of three events or more whose first
\* events went out in a non-final flush (dump_every_events = 2).
C4_Witness ==
    \E c \in Connections :
        /\ cons[c].freed
        /\ conf_opt_e = 2
        /\ Len(log[c]) >= 3

\* The record c has been taken out of the descriptor table by a close.
Removed(c) ==
    \/ cons[c].freed
    \/ \E t \in Threads : pc[t] = "close_finish" /\ hk[t].con = c

\* C5: once a close hook has removed a record from the table, the only event
\* still appended to it, and the only write to its file, is the close event
\* of that hook; after it nothing is appended or written.
C5_CloseIsLast ==
    [][ \A c \in Connections :
          Removed(c) =>
            \/ log'[c] = log[c] /\ FileOf(c)' = FileOf(c)
            \/ /\ ~cons[c].freed
               /\ cons'[c].freed
               /\ Len(log'[c]) = Len(log[c]) + 1
               /\ log'[c][Len(log'[c])].type = "close" ]_vars

\* C5 witness: a closed record while another thread is about to record the
\* tcp_info event that an event on this record triggered before the close.
C5_Witness ==
    \E c \in Connections, t \in Threads :
        /\ cons[c].freed
        /\ pc[t] = "fill_tcpinfo"
        /\ hk[t].con = c

\* C6: last_flushed_count <= events_count always; a step that writes to the
\* file (a flush) leaves last_flushed_count = events_count and the list empty.
C6_FlushBookmark ==
    /\ [](\A c \in Connections :
            cons[c].last_json_dump_evcount <= cons[c].events_count)
    /\ [][ \A c \in Connections :
             FileOf(c)' # FileOf(c) =>
                /\ cons'[c].last_json_dump_evcount = cons'[c].events_count
                /\ cons'[c].events = << >> ]_vars

\* C6 witness: a live connection just after a non-final flush of two events
\* or more.
C6_Witness ==
    \E c \in Connections :
        /\ ~cons[c].freed
        /\ FileOf(c) # << >>
        /\ cons[c].events = << >>
        /\ cons[c].last_json_dump_evcount >= 2

\* The two gates as the claim states them.
TimeGate(con, t_now) ==
    conf_opt_u = 0 \/ t_now - con.last_info_dump_micros >= conf_opt_u
ByteGate(con) ==
    conf_opt_b = 0 \/
    con.bytes_sent + con.bytes_received - con.last_info_dump_bytes
        >= conf_opt_b

\* C7: the tcp_info hook is entered only from the end of a hook that has just
\* appended an event that is not a tcp_info event, with both gates passing on
\* the record as it is after the append.
C7_TcpInfoOnlyWhenGatesPass ==
    [][ \A t \in Threads :
          /\ (pc'[t] = "fill_tcpinfo" /\ pc[t] # "fill_tcpinfo") =>
                /\ pc[t] = "postlude"
                /\ hk[t].type # "tcp_info"
                /\ LET c == hk[t].con IN
                   /\ Len(log'[c]) = Len(log[c]) + 1
                   /\ log'[c][Len(log'[c])].type = hk[t].type
                   /\ TimeGate(cons'[c], now)
                   /\ ByteGate(cons'[c])
          /\ (hk'[t].type = "tcp_info" /\ hk[t].type # "tcp_info") =>
                pc[t] = "fill_tcpinfo" ]_vars

\* C7 witness: a tcp_info event was decided with both options set.
C7_Witness ==
    \E t \in Threads :
        /\ pc[t] = "fill_tcpinfo"
        /\ conf_opt_b > 0
        /\ conf_opt_u > 0

\* C8 (as claimed): no two tcp_info events are adjacent in the events of a
\* connection.
C8_NoAdjacentTcpInfo ==
    \A c \in Connections :
        \A k \in 1..(Len(log[c]) - 1) :
            ~(log[c][k].type = "tcp_info" /\ log[c][k + 1].type = "tcp_info")

C10_FlushedAfterEveryEvent ==
    (conf_opt_e = 1 /\ Quiescent /\ slot[fd] # NULL) =>
        /\ cons[slot[fd]].events = << >>
        /\ cons[slot[fd]].last_json_dump_evcount = cons[slot[fd]].events_count

\* The types of the events of evs, in order.
Types(evs) == [k \in DOMAIN evs |-> evs[k].type]

\* The script has been run to its end and no hook is running.
ScriptDone == calls = Len(script) /\ Quiescent

\* C11: a step that records a tcp_info event leaves last_info_dump_bytes =
\* bytes_sent + bytes_received; and with dump_every_bytes = 1024,
\* dump_every_micros = 0 and a single thread, after sends of 500, 600 and
\* 500 bytes the connection holds exactly one tcp_info event, between the
\* second and the third send.
C11_ByteGateRearmed ==
    /\ [][ \A t \in Threads :
             (pc[t] = "postlude" /\ pc'[t] # "postlude"
                /\ hk[t].type = "tcp_info") =>
                LET c == hk[t].con IN
                /\ Len(log'[c]) = Len(log[c]) + 1
                /\ log'[c][Len(log'[c])].type = "tcp_info"
                /\ cons'[c].last_info_dump_bytes
                     = cons'[c].bytes_sent + cons'[c].bytes_received ]_vars
    /\ []((script = ThreeSends /\ conf_opt_b = 1024 /\ conf_opt_u = 0
             /\ ScriptDone) =>
            /\ slot[5] # NULL
            /\ Types(log[slot[5]])
                 = << "socket", "send", "send", "tcp_info", "send" >>
            /\ cons[slot[5]].last_info_dump_bytes = 1100
            /\ cons[slot[5]].bytes_sent = 1600)

\* C11 witness: the three sends are done with dump_every_bytes = 1024 and
\* dump_every_micros = 0, and a tcp_info event was recorded.
C11_Witness ==
    /\ script = ThreeSends
    /\ conf_opt_b = 1024
    /\ conf_opt_u = 0
    /\ ScriptDone
    /\ slot[5] # NULL
    /\ CountTypes(log[slot[5]], {"tcp_info"}) >= 1
    /\ cons[slot[5]].bytes_sent = 1600

\* The record of the connection id made by the process that owns the output
\* directory conf_opt_d.
ConnectionsWithId(id) ==
    { c \in Connections : cons[c].directory = << conf_opt_d, id >> }

\* What the claim expects of the minimal TCP client: one connection, id 0,
\* closed, its events.json an array of exactly 4 events with the ids 0..3,
\* of the types socket, connect, write, close, 100 bytes sent, 0 received.
MinimalClientOutput ==
    /\ Len(cons) = 1
    /\ ConnectionsWithId(0) = {1}
    /\ cons[1].id = 0
    /\ cons[1].freed
    /\ JsonArrayOf(FileOf(1), 4)
    /\ Types(log[1]) = << "socket", "connect", "write", "close" >>
    /\ \A k \in 1..4 : log[1][k].id = k - 1
    /\ cons[1].bytes_sent = 100
    /\ cons[1].bytes_received = 0

Last(s) == s[Len(s)]

\* C13: in a host program that runs one hook at a time, the socket hook on a
\* descriptor that still has a record first closes that record (close event
\* appended as the last event, final flush terminating the JSON array,
\* record out of the table and released), then makes a fresh record with
\* the next connection id, a directory of its own and a socket event with
\* id 0, and leaves the fresh record in the table.
C13_StaleReplaced ==
    [][ \A t \in Threads :
          LET f == hk[t].fd IN
          /\ (pc[t] = "socket" /\ pc'[t] # "socket" /\ slot[f] # NULL) =>
                (pc'[t] = "close" /\ hk'[t].from_socket /\ slot' = slot)
          /\ (pc[t] = "socket" /\ pc'[t] = "socket_alloc") => slot[f] = NULL
          /\ (pc[t] = "close_finish" /\ hk[t].from_socket
                /\ pc'[t] # "close_finish") =>
                LET c == hk[t].con IN
                /\ pc'[t] = "socket_alloc"
                /\ slot'[f] = NULL
                /\ cons'[c].freed
                /\ Len(log'[c]) = Len(log[c]) + 1
                /\ Last(log'[c]).type = "close"
                /\ JsonArrayOf(files'[cons[c].directory], Len(log'[c]))
          /\ (pc[t] = "socket_alloc" /\ pc'[t] # "socket_alloc") =>
                LET n == hk'[t].con IN
                /\ pc'[t] = "socket_put"
                /\ n \notin DOMAIN cons
                /\ cons'[n].id = connections_count
                /\ connections_count' = connections_count + 1
                /\ \A c \in DOMAIN cons :
                      cons[c].directory # cons'[n].directory
                /\ Types(log'[n]) = << "socket" >>
                /\ log'[n][1].id = 0
                /\ slot'[f] = NULL
          /\ (pc[t] = "socket_put" /\ pc'[t] # "socket_put") =>
                /\ slot'[f] = hk[t].con
                /\ ~cons'[hk[t].con].freed ]_vars

\* C13 witness: socket, send and socket again on descriptor 5 without a
\* close: the first record was closed by the second socket hook and the
\* table holds the second record.
C13_Witness ==
    /\ Len(script) = 3
    /\ script[1].op = "socket" /\ script[1].fd = 5
    /\ script[2].op = "send"
    /\ script[3].op = "socket" /\ script[3].fd = 5
    /\ ScriptDone
    /\ Len(cons) = 2
    /\ cons[1].freed
    /\ Last(log[1]).type = "close"
    /\ slot[5] = 2

\* Thread t takes the step of tcp_ev_close that appends the close event.
ClosesNow(t) == pc[t] = "close_finish" /\ pc'[t] # "close_finish"

\* The close hook of thread t was called by the library itself: by
\* tcp_ev_socket for a stale record, or by the atexit sweep.
Synthesized(t) == hk[t].from_socket \/ hk[t].i # Unset

OwnConnections ==
    { c \in Connections :
        /\ cons[c].directory # NoDir
        /\ dirs[cons[c].directory[1] + 1] = pid }

\* C15: when the atexit handlers of a single-threaded host program have
\* run, no descriptor has a record left, and every connection the process
\* made has a close event as its last event, nothing pending in memory and
\* an events.json that is the terminated array of all its events.
C15_SweepClosesAll ==
    pc[1] = "exited" =>
        /\ \A f \in Fds : slot[f] = NULL
        /\ \A c \in OwnConnections :
              /\ cons[c].freed
              /\ cons[c].events = << >>
              /\ Last(log[c]).type = "close"
              /\ \A k \in 1..(Len(log[c]) - 1) : log[c][k].type # "close"
              /\ JsonArrayOf(FileOf(c), Len(log[c]))

\* C15 witness: exit with two live connections, one of them with an event
\* still pending in memory: both were closed by the sweep.
C15_Witness ==
    /\ script = TwoLiveAtExit
    /\ pc[1] = "exited"
    /\ conf_opt_e > 2
    /\ OwnConnections = {1, 2}
    /\ cons[1].freed
    /\ cons[2].freed
    /\ Len(log[2]) = 3

\* C16: once init has completed, a further call of init_tcpsnitch changes
\* nothing but the caller's position: same configuration snapshot and
\* output directory, no new directory or file, no new atexit handler; and
\* when several threads call init concurrently the initialization steps run
\* once: one atexit handler, one output directory, one thread at a time in
\* the steps.
C16_InitOnce ==
    /\ [][ \A t \in Threads :
             (initialized /\ pc[t] = "init" /\ pc'[t] # "init") =>
                /\ pc'[t] = "socket"
                /\ UNCHANGED << conf, dirs, files, atexit_n, initialized,
                                init_mutex, connections_count, cons, slot,
                                lock, log, hk >> ]_vars
    /\ [][ initialized =>
             /\ initialized'
             /\ UNCHANGED << conf, dirs, atexit_n >> ]_vars
    /\ [](/\ atexit_n <= 1
          /\ Len(dirs) <= 1
          /\ Cardinality({t \in Threads : pc[t] = "init_body"}) <= 1
          /\ initialized => (atexit_n = 1 /\ Len(dirs) = 1
                               /\ conf_opt_d = 0))

\* C16 witness: both threads have called init at the same time and are back
\* in their socket hooks; the steps ran once.
C16_Witness ==
    /\ initialized
    /\ pc[1] = "socket"
    /\ pc[2] = "socket"
    /\ atexit_n = 1
    /\ dirs = << 0 >>

\* C17: when init cannot get its output directory (TCPSNITCH_OPT_D not set,
\* the directory unreadable, or mkdir failing in it), init still completes
\* (initialized set, mutex released, options read) without an output
\* directory; socket hooks still make records, every event is appended in
\* memory with dense ids and stays there until the record is released, and
\* nothing is written: no directory is made and no file gets content.
C17_DegradedMode ==
    /\ [][ \A t \in Threads :
             (pc[t] = "init_body" /\ pc'[t] # "init_body") =>
                /\ initialized'
                /\ init_mutex' = NULL
                /\ pc'[t] = "socket"
                /\ conf_opt_d' = Unset
                /\ conf_opt_e' = get_long_opt_or_defaultval(env.e, 1000) ]_vars
    /\ [](/\ DOMAIN files = {}
          /\ dirs = << >>
          /\ \A c \in Connections :
                /\ cons[c].directory = NoDir
                /\ \A k \in DOMAIN log[c] : log[c][k].id = k - 1
                /\ cons[c].events_count = Len(log[c])
                /\ cons[c].last_json_dump_evcount = 0
                /\ ~cons[c].freed => cons[c].events = log[c])

\* C17 witness: init has failed, a socket hook has made a record, a send was
\* appended to it with dump_every_events = 1 (a flush was tried after each
\* event), and a second record was made.
C17_Witness ==
    /\ initialized
    /\ conf_opt_d = Unset
    /\ conf_opt_e = 1
    /\ env.d = "readonly"
    /\ ScriptDone
    /\ Len(cons) = 2
    /\ \E c \in Connections :
         /\ ~cons[c].freed
         /\ Len(cons[c].events) >= 2
         /\ cons[c].bytes_sent > 0

\* The records whose connection directory lies in the output directory d.
ConnectionsWithDir(d) ==
    { c \in Connections : cons[c].directory # NoDir
                            /\ cons[c].directory[1] = d }

\* C18: after the reset in the child of a fork the descriptor table is empty,
\* the library is uninitialized and the connection counter is 0; the init
\* that follows makes the library initialized again with an output directory
\* that did not exist before, made by the child; and the first connection
\* made after that gets the id 0 (every new connection gets as its id the
\* number of connections made in that output directory before it).
C18_ForkResetInit ==
    /\ [][ \A t \in Threads :
             /\ (pc[t] = "reset" /\ pc'[t] # "reset") =>
                   /\ ~initialized'
                   /\ \A f \in Fds : slot'[f] = NULL
                   /\ connections_count' = 0
             /\ (pid > 0 /\ pc[t] = "init_body" /\ pc'[t] # "init_body") =>
                   /\ initialized'
                   /\ \A f \in Fds : slot'[f] = NULL
                   /\ connections_count' = 0
                   /\ conf_opt_d' = Len(dirs)
                   /\ dirs' = Append(dirs, pid)
                   /\ \A k \in DOMAIN dirs : dirs[k] # pid
             /\ (pid > 0 /\ pc[t] = "socket_alloc"
                   /\ pc'[t] # "socket_alloc") =>
                   LET n == Len(cons) + 1 IN
                   /\ cons'[n].directory = << conf_opt_d, cons'[n].id >>
                   /\ cons'[n].id = Cardinality(ConnectionsWithDir(conf_opt_d))
           ]_vars
    /\ []((pid > 0 /\ initialized /\ pc[1] # "reset") =>
             /\ conf_opt_d # Unset
             /\ dirs[conf_opt_d + 1] = pid)

\* C18 witness: the parent made a connection in <base>/0, the child was
\* reset, initialized again with <base>/1 and made its first connection,
\* with id 0.
C18_Witness ==
    /\ pid = 1
    /\ initialized
    /\ dirs = << 0, 1 >>
    /\ conf_opt_d = 1
    /\ Len(cons) = 2
    /\ cons[1].directory = << 0, 0 >>
    /\ cons[2].directory = << 1, 0 >>
    /\ cons[2].id = 0
    /\ slot[5] = 2

\* The events.json files that lie in an output directory made by another
\* process than the running one.
ForeignFiles == { p \in DOMAIN files : dirs[p[1] + 1] # pid }

\* The records made by another process than the running one (inherited
\* through fork).
ForeignConnections ==
    { c \in Connections : cons[c].directory # NoDir
                            /\ dirs[cons[c].directory[1] + 1] # pid }

\* C19: the reset in the child of a fork empties the table and releases the
\* inherited records without appending an event or writing a file; and no
\* step of the child (calls on inherited descriptors, new sockets, its
\* atexit sweep) appends an event to a record made by the parent or writes
\* to a file in the parent's output directory.
C19_ChildDropsInherited ==
    [][ /\ \A t \in Threads :
             (pc[t] = "reset" /\ pc'[t] # "reset") =>
                /\ log' = log
                /\ files' = files
                /\ \A f \in Fds : slot'[f] = NULL
                /\ \A c \in Connections : cons'[c].freed
        /\ pid > 0 =>
             /\ \A p \in ForeignFiles :
                   p \in DOMAIN files' /\ files'[p] = files[p]
             /\ \A c \in ForeignConnections : log'[c] = log[c]
        /\ pid' # pid => (log' = log /\ files' = files) ]_vars

\* C19 witness: the parent made a connection and flushed two events of it,
\* then forked; the child called send on the inherited descriptor, made a
\* socket on it and exited: the parent's file still holds the two events,
\* open, and the child's own connection has its own closed file.
C19_Witness ==
    /\ script = ForkAndReuse
    /\ pc[1] = "exited"
    /\ pid = 1
    /\ conf_opt_e = 1
    /\ conf_opt_b = 4096
    /\ Len(log[1]) = 2
    /\ Tokens(FileAt(<< 0, 0 >>))
         = << [s |-> "[", ev |-> -1], [s |-> "json", ev |-> 0],
              [s |-> ",", ev |-> -1], [s |-> "json", ev |-> 1],
              [s |-> ",", ev |-> -1] >>
    /\ JsonArrayOf(FileAt(<< 1, 0 >>), 2)

\* The storage s holds the address a: its bytes, then zeroes.
HoldsAddr(s, a) ==
    /\ Len(s) = SizeofStorage
    /\ \A k \in 1..SizeofStorage :
          s[k] = (IF k <= Len(a) THEN a[k] ELSE 0)

\* C20: the bind hook appends a bind event that carries the address passed
\* to bind; when bind returned 0 the record then has bound = true and
\* bound_addr equal to that address; when bind failed, bound and bound_addr
\* are as before.  Nothing else of the record changes but the event list
\* and its count (and the flush bookmark when the hook flushes).
C20_BindFrame ==
    [][ \A t \in Threads :
          (pc[t] = "postlude" /\ pc'[t] # "postlude"
             /\ hk[t].type = "bind") =>
             LET c  == hk[t].con
                 ev == log'[c][Len(log'[c])]
             IN /\ Len(log'[c]) = Len(log[c]) + 1
                /\ ev.type = "bind"
                /\ ev.return_value = hk[t].return_value
                /\ HoldsAddr(ev.addr, hk[t].addr)
                /\ IF hk[t].return_value = 0
                     THEN /\ cons'[c].bound
                          /\ HoldsAddr(cons'[c].bound_addr, hk[t].addr)
                     ELSE /\ cons'[c].bound = cons[c].bound
                          /\ cons'[c].bound_addr = cons[c].bound_addr
                /\ cons'[c].bytes_sent = cons[c].bytes_sent
                /\ cons'[c].bytes_received = cons[c].bytes_received
                /\ cons'[c].last_info_dump_bytes = cons[c].last_info_dump_bytes
                /\ cons'[c].force_bind = cons[c].force_bind
                /\ cons'[c].id = cons[c].id
                /\ cons'[c].directory = cons[c].directory ]_vars

\* C20 witness: a bind that returned 0, then a failed bind with another
\* address: the record is bound to the first address, and the last event is
\* the failed bind with the second.
C20_Witness ==
    /\ ScriptDone
    /\ slot[5] # NULL
    /\ cons[slot[5]].bound
    /\ cons[slot[5]].bound_addr = << 10, 1, 0 >>
    /\ Last(log[slot[5]]).type = "bind"
    /\ Last(log[slot[5]]).return_value = -1
    /\ Last(log[slot[5]]).addr = << 10, 2, 0 >>

\* C28: connection ids are unique within a process and handed out in
\* increasing order from 0: under any interleaving of the socket hooks of
\* the two threads, the k-th record made has id k - 1, so no two records
\* share an id and a record made later has a greater id.
C28_UniqueIds ==
    /\ \A c \in Connections : cons[c].id = c - 1
    /\ \A c1, c2 \in Connections :
         /\ (c1 # c2 => cons[c1].id # cons[c2].id)
         /\ (c1 < c2 => cons[c1].id < cons[c2].id)

\* C28 witness: both threads are inside tcp_ev_socket at once, each with a
\* record of its own that it has not yet put into the table.
C28_Witness ==
    /\ pc[1] = "socket_put"
    /\ pc[2] = "socket_put"
    /\ hk[1].con # hk[2].con
    /\ Len(cons) >= 2

\* C24: a tcp_info event is recorded also when the kernel query failed.
\* When tcp_ev_tcp_info is called with return value -1 and finds the record,
\* it goes on to record the event (it is not dropped), and the event it
\* appends has type tcp_info, success = false, the error string of the
\* query's error code, and the next dense id (the number of events appended
\* to the connection before it).
C24_FailedQueryRecorded ==
    [][ \A t \in Threads :
          (hk[t].type = "tcp_info" /\ hk[t].return_value = -1)
          => /\ (pc[t] = "prelude" /\ pc'[t] # "prelude"
                   /\ slot[hk[t].fd] # NULL)
                => pc'[t] = "postlude"
             /\ (pc[t] = "postlude" /\ pc'[t] # "postlude")
                => LET c == hk[t].con IN
                   /\ Len(log'[c]) = Len(log[c]) + 1
                   /\ cons'[c].events_count = cons[c].events_count + 1
                   /\ Last(log'[c]).type = "tcp_info"
                   /\ Last(log'[c]).success = FALSE
                   /\ Last(log'[c]).error_str = alloc_error_str(hk[t].err)
                   /\ Last(log'[c]).id = Len(log[c])
      ]_vars

\* C24 witness: a connection holds a tcp_info event of a failed query, with
\* the string of EOPNOTSUPP, between two other events.
C24_Witness ==
    \E c \in Connections : \E k \in DOMAIN log[c] :
        /\ log[c][k].type = "tcp_info"
        /\ log[c][k].return_value = -1
        /\ log[c][k].success = FALSE
        /\ log[c][k].error_str = alloc_error_str(EOPNOTSUPP)
        /\ log[c][k].id = k - 1
        /\ k > 1
        /\ k < Len(log[c])

\* The exact sum of the lengths of an iovec array.
RECURSIVE SumSeq(_)
SumSeq(s) == IF s = << >> THEN 0 ELSE Head(s) + SumSeq(Tail(s))

\* The size a data-transfer call asked for: its byte count, or the sum of
\* the lengths of its iovec array.
Requested(h) == IF h.type \in IovecHooks THEN SumSeq(h.iov) ELSE h.bytes

\* C29: every data-transfer hook records the requested size as the bytes of
\* its event and adds it to bytes_sent (send family) or bytes_received
\* (receive family), whatever the call returned; the size is the byte count
\* of send/recv/sendto/recvfrom/write/read and the exact sum of the iovec
\* lengths of writev/readv/sendmsg/recvmsg.  No hook makes a counter
\* smaller.
C29_RequestedBytes ==
    [][ /\ \A c \in Connections :
             /\ cons'[c].bytes_sent >= cons[c].bytes_sent
             /\ cons'[c].bytes_received >= cons[c].bytes_received
        /\ (pc[1] = "postlude" /\ pc'[1] # "postlude"
              /\ hk[1].type \in SendFamily \cup RecvFamily)
           => LET c == hk[1].con
                  n == Requested(hk[1])
              IN /\ Last(log'[c]).bytes = n
                 /\ cons'[c].bytes_sent = cons[c].bytes_sent
                       + (IF hk[1].type \in SendFamily THEN n ELSE 0)
                 /\ cons'[c].bytes_received = cons[c].bytes_received
                       + (IF hk[1].type \in RecvFamily THEN n ELSE 0)
      ]_vars

\* C27: an allocation that fails inside a post-hook aborts the event
\* cleanly.  In a hook built from TCP_EV_PRELUDE / TCP_EV_POSTLUDE, when
\* alloc_event gives no event or push_event gives no list node, no event is
\* appended, events_count, bytes_sent, bytes_received and the bound state of
\* the record are as before, the record stays in the table and the slot lock
\* is free when the hook is left.  In tcp_ev_close no event is appended and
\* the record is still flushed (its file ends with "]") and released.
C27_AllocationFailureClean ==
    [][ /\ ( \/ (pc[1] = "prelude" /\ pc'[1] # "prelude"
                   /\ slot[hk[1].fd] # NULL /\ Fails("alloc_event"))
             \/ (pc[1] = "postlude" /\ pc'[1] # "postlude"
                   /\ Fails("push_event")) )
           => LET f == hk[1].fd
                  c == slot[f]
              IN /\ log' = log
                 /\ cons'[c].events_count = cons[c].events_count
                 /\ cons'[c].bytes_sent = cons[c].bytes_sent
                 /\ cons'[c].bytes_received = cons[c].bytes_received
                 /\ cons'[c].bound = cons[c].bound
                 /\ cons'[c].bound_addr = cons[c].bound_addr
                 /\ slot' = slot
                 /\ lock'[f] = NULL
        /\ (pc[1] = "close_finish" /\ pc'[1] # "close_finish"
              /\ (Fails("alloc_event") \/ Fails("push_event")))
           => LET c == hk[1].con
              IN /\ log' = log
                 /\ cons'[c].freed
                 /\ cons'[c].events = << >>
                 /\ files'[cons[c].directory] # << >>
                 /\ Last(files'[cons[c].directory]).s = "]"
      ]_vars

\* The ids of the events written to the file f, in the order written.
WrittenIds(f) ==
    LET js == SelectSeq(f, LAMBDA x : x.s = "json")
    IN [k \in 1..Len(js) |-> js[k].ev]

\* The ids of the events queued in the list of a record: the nodes from head
\* on that were not freed.
QueuedIds(con) ==
    [k \in 1..(Len(con.events) - con.dangling) |->
        con.events[k + con.dangling].id]

\* C23: a flush that fails (no file path, fopen, an event in the middle of
\* the list that cannot be serialized, fclose) loses no event and writes
\* none twice.  For every record in the table that has a directory, the ids
\* written to its file followed by the ids queued in its list are 0, 1, ..
\* in order, each event appended so far exactly once; last_json_dump_evcount
\* is not beyond the events written; and the process is alive to accept the
\* next event and flush.
C23_FailedFlushKeepsEvents ==
    /\ pc[1] # "segv"
    /\ \A f \in Fds :
         (slot[f] # NULL /\ cons[slot[f]].directory # NoDir)
         => LET c == slot[f]
                written == WrittenIds(FileOf(c))
            IN /\ written \o QueuedIds(cons[c])
                    = [k \in 1..Len(log[c]) |-> k - 1]
               /\ cons[c].last_json_dump_evcount <= Len(written)

\* The host program bound the socket itself before the capture was asked
\* for (the scripts of SpecCapture do so in their second call or never).
HostBound == calls >= 2 /\ script[2].op = "bind"

\* A bind event of a forced bind that succeeded on a port of the range.
ForcedBindEvent(ev) ==
    /\ ev.type = "bind"
    /\ ev.return_value = 0
    /\ ev.force_bind = TRUE
    /\ Len(ev.addr) = 2
    /\ ev.addr[2] \in MIN_PORT..MAX_PORT

\* C21: when capture starts on a socket the host has not bound, the library
\* binds it itself first.  force_bind is left alive; and whenever a record
\* of such a socket has its capture handle set and the bind of force_bind
\* succeeded (the record is bound), the record has force_bind = true, its
\* log holds a bind event with force_bind = true and a port in
\* [MIN_PORT, MAX_PORT], and the capture filter has that port.
C21_ForcedBindBeforeCapture ==
    /\ \A t \in Threads : ~(pc[t] = "segv" /\ hk[t].port # Unset)
    /\ \A c \in Connections :
         (cons[c].capture_switch # NULL /\ ~HostBound /\ cons[c].bound)
         => /\ cons[c].force_bind = TRUE
            /\ \E k \in DOMAIN log[c] :
                 /\ ForcedBindEvent(log[c][k])
                 /\ pcap[cons[c].capture_switch].from = log[c][k].addr

\* Where a thread is about to take the mutex of a slot (ra_get_and_lock_elem,
\* ra_remove_elem, ra_put_elem).
Acquiring == {"prelude", "close", "socket_put", "capture", "capture_relock"}

\* Where a thread is inside or about to make a call out of a hook: the
\* bind() of force_bind, fill_tcpinfo and the tcp_ev_tcp_info that follows.
Invoking == {"force_bind", "force_bind_try", "force_bind_rc", "fill_tcpinfo"}

\* C22: no thread holds a slot lock while it invokes a wrapped entry point
\* or a post-hook (the forced bind, the tcp_info query and its tcp_info
\* hook), and no thread is about to acquire a slot lock while it holds one,
\* also for the events that follow a capture start on the descriptor.
C22_NoLockAcrossCalls ==
    \A t \in Threads : \A f \in Fds :
        lock[f] = t => pc[t] \notin (Acquiring \cup Invoking)

\* C30: a hook that took a slot lock has released it when it returns, on
\* every path, capture start included: a thread that is back in the host
\* program (or back in force_bind from the hook of its bind) holds no slot
\* lock, so the next hook on the descriptor finds the mutex free.
C30_LockReleasedOnReturn ==
    \A t \in Threads : \A f \in Fds :
        pc[t] \in {"idle", "force_bind_rc", "exited"} => lock[f] # t

\* The third call of the script was a capture start on the socket the host
\* had bound, a step of start_capture failed in it, it has returned, and no
\* other capture start was asked for since.
SetupFailed ==
    /\ HostBound
    /\ fault.kind \in StartCaptureFaults
    /\ fault.call = 3
    /\ calls >= 3
    /\ (calls = 3 => pc[1] \in {"idle", "exited"})
    /\ \A i \in 4..calls : script[i].op # "capture"

\* C25: when a step of start_capture fails, the connection has no capture
\* handle, and the hooks of the later events on the connection and of its
\* close are not kept from running: the slot mutex they take is free (or
\* can be taken again by its holder).
C25_SetupFailureHarmless ==
    SetupFailed
    => /\ \A c \in Connections : cons[c].capture_switch = NULL
       /\ \A t \in Threads :
            pc[t] \in {"prelude", "close"} => mutex_lock(t, hk[t].fd)

\* C26: if the capture handle of a record of the table is set, its worker thread is
\* running and the handle is open; the handle is not kept (to be
\* interrupted at close) after the worker has ended by itself and closed
\* it.
C26_HandleImpliesWorker ==
    \A f \in Fds :
        (slot[f] # NULL /\ cons[slot[f]].capture_switch # NULL)
        => /\ pcap[cons[slot[f]].capture_switch].open
           /\ pcap[cons[slot[f]].capture_switch].worker = "running"

\* C37: whenever the descriptor table holds a connection record the library
\* is marked initialized (tcp_ev_socket runs init_tcpsnitch before it makes
\* the record); so reset_tcpsnitch, which returns at once when the library
\* is not initialized, never finds inherited records it would skip.
C37_RecordsImplyInitialized ==
    (\E f \in Fds : slot[f] # NULL) => initialized

\* C37 witness: a forked child whose reset has released the records it
\* inherited holds a record of its own, made after a second init.
C37_Witness ==
    /\ pid > 0
    /\ pc[1] = "idle"
    /\ initialized
    /\ \E f \in Fds : slot[f] # NULL /\ ~cons[slot[f]].freed
    /\ \E c \in Connections : cons[c].freed /\ log[c] # << >>

\* The events of the given types in all the logs.
RECURSIVE TotalTypes(_, _)
TotalTypes(c, types) ==
    IF c = 0 THEN 0
    ELSE CountTypes(log[c], types) + TotalTypes(c - 1, types)

\* The events in all the logs.
RECURSIVE TotalLen(_)
TotalLen(c) == IF c = 0 THEN 0 ELSE Len(log[c]) + TotalLen(c - 1)

\* C31: the tcp_info trigger never recurses and every hook built from the
\* prelude and the postlude ends.  The postlude of tcp_ev_tcp_info never
\* goes on to fill_tcpinfo; fill_tcpinfo is reached only from the postlude
\* of another event, once; the postlude of another event appends no
\* tcp_info event itself, so there are never more tcp_info events than
\* other events; and a thread in a postlude always gets back to the host
\* program.  The environments include dump_every_bytes = 0 with
\* dump_every_micros = 0, where every event asks for a tcp_info event.
C31_NoRecursion ==
    /\ [][ \A t \in Threads :
             /\ (pc[t] = "postlude" /\ pc'[t] # "postlude"
                   /\ hk[t].type = "tcp_info")
                => pc'[t] = "idle"
             /\ (pc[t] # "fill_tcpinfo" /\ pc'[t] = "fill_tcpinfo")
                => (pc[t] = "postlude" /\ hk[t].type # "tcp_info")
             /\ (pc[t] = "postlude" /\ pc'[t] # "postlude"
                   /\ hk[t].type # "tcp_info")
                => TotalTypes(Len(log'), {"tcp_info"})
                     = TotalTypes(Len(log), {"tcp_info"})
         ]_vars
    /\ [](2 * TotalTypes(Len(log), {"tcp_info"}) <= TotalLen(Len(log)))
    /\ \A t \in Threads : (pc[t] = "postlude") ~> (pc[t] = "idle")

\* C31 witness: with both options 0 a connection got an event and then the
\* tcp_info event it asked for, and the thread is back in the host program
\* with nothing more appended.
C31_Witness ==
    /\ conf_opt_b = 0
    /\ conf_opt_u = 0
    /\ Quiescent
    /\ \E c \in Connections :
         /\ Len(log[c]) >= 3
         /\ Last(log[c]).type = "tcp_info"
         /\ log[c][Len(log[c]) - 1].type \notin {"tcp_info", "socket"}

\* C35: a tcp_info event is appended only to the connection whose event
\* decided it.  Every tcp_info event follows from one event recorded by a
\* hook with a postlude (any event but socket, close and tcp_info), so no
\* connection ever holds more tcp_info events than such events; a tcp_info
\* event that lands on a new connection that reuses the descriptor number
\* is one too many there.
C35_TcpInfoOnTriggerConnection ==
    \A c \in Connections :
        CountTypes(log[c], {"tcp_info"})
          <= Len(log[c]) - CountTypes(log[c], {"socket", "close", "tcp_info"})

\* C34: whenever no hook is running on a connection of the table (its slot
\* mutex is free), the list of the record holds exactly the events with the
\* ids last_json_dump_evcount .. events_count - 1 in order, and the file
\* holds exactly the events with the smaller ids, each once: no event is
\* missing, written twice, or both queued and written.
C34_ListAndFile ==
    \A f \in Fds :
        (slot[f] # NULL /\ lock[f] = NULL)
        => LET con  == cons[slot[f]]
               last == con.last_json_dump_evcount
           IN /\ QueuedIds(con)
                   = [k \in 1..(con.events_count - last) |-> last + k - 1]
              /\ WrittenIds(FileAt(con.directory))
                   = [k \in 1..last |-> k - 1]

\* The second call of the script was a capture start on the unbound socket,
\* it has returned, and the socket is still not bound: force_bind failed.
ForceBindFailed ==
    /\ calls >= 2
    /\ script[2].op = "capture"
    /\ (calls = 2 => pc[1] = "idle")
    /\ slot[script[2].fd] # NULL
    /\ ~cons[slot[script[2].fd]].bound

\* C32: force_bind tries the ports in increasing order from MIN_PORT to
\* MAX_PORT: it starts with MIN_PORT, goes on to the next port only after
\* bind failed with EADDRINUSE, and stops at the first bind that returns 0,
\* at any other error, or after MAX_PORT.  When it failed, the filter of the
\* capture has the peer only, and the hooks of the later events of the
\* connection and of its close run as before.
C32_ForceBindPorts ==
    /\ [][ \A t \in Threads :
             /\ (pc[t] = "force_bind" /\ pc'[t] # "force_bind")
                => (pc'[t] = "force_bind_try" /\ hk'[t].port = MIN_PORT)
             /\ (pc[t] = "force_bind_rc" /\ pc'[t] # "force_bind_rc")
                => IF hk[t].rc # 0 /\ hk[t].errno = EADDRINUSE
                        /\ hk[t].port < MAX_PORT
                     THEN /\ pc'[t] = "force_bind_try"
                          /\ hk'[t].port = hk[t].port + 1
                     ELSE pc'[t] = "capture_relock"
         ]_vars
    /\ [](ForceBindFailed
          => /\ \A f \in Fds :
                  (slot[f] # NULL /\ cons[slot[f]].capture_switch # NULL)
                  => pcap[cons[slot[f]].capture_switch].from = NoAddr
             /\ \A t \in Threads :
                  pc[t] \in {"prelude", "close"} => mutex_lock(t, hk[t].fd))

\* C33: stop_capture interrupts the worker and waits for it.  It returns
\* only after the worker has ended, with the result of the worker's
\* pcap_loop, or with -3 when pthread_join fails; the handle and the dump of
\* a started capture are closed by the worker when it ends, once each, and
\* never while it runs; and once the worker has ended, the thread that waits
\* in stop_capture returns from it.
C33_StopCaptureJoins ==
    /\ [][ \A t \in Threads :
             (pc[t] = "join" /\ pc'[t] # "join")
             => LET h == cons[hk[t].con].capture_switch
                IN /\ pcap[h].brk
                   /\ IF Fails("pthread_join")
                        THEN pcap'[h].result = -3
                        ELSE /\ pcap[h].worker = "ended"
                             /\ pcap'[h].result = pcap[h].pcount
         ]_vars
    /\ [](\A h \in DOMAIN pcap :
            IF pcap[h].worker = "running"
              THEN /\ pcap[h].open
                   /\ pcap[h].closes = 0
                   /\ pcap[h].dump_closes = 0
              ELSE /\ ~pcap[h].open
                   /\ pcap[h].closes = 1
                   /\ pcap[h].dump_closes = 1)
    /\ \A t \in Threads :
         (pc[t] = "join"
            /\ pcap[cons[hk[t].con].capture_switch].worker = "ended")
         ~> (pc[t] # "join")

\* C33 witness: stop_capture interrupted a running worker, the worker saw
\* it and ended, and stop_capture returned the -2 of its pcap_loop; the
\* connection was then closed.
C33_Witness ==
    \E c \in Connections :
        /\ cons[c].freed
        /\ cons[c].capture_switch # NULL
        /\ pcap[cons[c].capture_switch].brk
        /\ pcap[cons[c].capture_switch].worker = "ended"
        /\ pcap[cons[c].capture_switch].pcount = -2
        /\ pcap[cons[c].capture_switch].result = -2
        /\ pcap[cons[c].capture_switch].closes = 1
        /\ Last(log[c]).type = "close"

\* C36: processes that run init at the same time on one base directory
\* never use the same per-process directory.  A process that has a
\* directory made it itself (it is recorded as its maker: no process adopts
\* a directory another one made), no directory is the directory of two
\* processes, the directory made is the first integer-named path that did
\* not exist, and a process whose mkdir lost the race has none.
C36_OwnDirectory ==
    /\ [](\A p \in Procs :
            proc[p].conf_opt_d # Unset
            => /\ proc[p].conf_opt_d < Len(dirs)
               /\ dirs[proc[p].conf_opt_d + 1] = p
               /\ \A q \in Procs \ {p} :
                    proc[q].conf_opt_d # proc[p].conf_opt_d)
    /\ [][ \A p \in Procs :
             (proc[p].pc = "mkdir" /\ proc'[p].pc = "done")
             => IF proc[p].i = Len(dirs)
                  THEN /\ proc'[p].conf_opt_d = Len(dirs)
                       /\ dirs' = Append(dirs, p)
                  ELSE /\ proc'[p].conf_opt_d = Unset
                       /\ dirs' = dirs
         ]_vars

\* C36 witness: two processes saw the same first free path; one made it, the
\* other's mkdir failed and it is left without a directory.
C36_Witness ==
    \E p, q \in Procs :
        /\ p # q
        /\ proc[p].pc = "done"
        /\ proc[q].pc = "done"
        /\ proc[p].conf_opt_d # Unset
        /\ proc[q].conf_opt_d = Unset
        /\ proc[q].i = proc[p].i

====
